---- MODULE Spec2Model ----
(***************************************************************************)
(* Phenology signal-processing engine of the Plant Bloom Monitor backend:  *)
(* the moving-average smoother, the adaptive-threshold bloom detector, the *)
(* /api/phenology handler with its response cache, and the trend, anomaly, *)
(* seasonality, prediction and recommendation analytics.                   *)
(*                                                                         *)
(* Conventions.                                                            *)
(*  - JavaScript arrays are sequences; the operators keep the source's     *)
(*    0-based indices and read element i of an array a as At(a, i).        *)
(*  - Numbers are exact rationals carried as integers: raw sample values   *)
(*    are integers, smoothed values are in units of 1/SmoothScale,         *)
(*    confidences in units of 1/ConfScale, a slope is a pair num/den.      *)
(*  - A calendar date is a day number; day d of year y is DayNumber(y, d). *)
(*    A model year has DaysPerYear days.  The process runs in UTC, so a    *)
(*    date string and the local calendar agree on the year of a date.      *)
(*  - null is Null, NaN is NaN; an absent query parameter is "".           *)
(***************************************************************************)
EXTENDS Integers, Sequences, FiniteSets, TLC

\* ---------------------------------------------------------------- bounds
MaxLen == 6          \* longest series handed to the analytics functions
MaxVal == 2          \* raw sample values are 0..MaxVal
MaxGap == 2          \* days between consecutive samples are 1..MaxGap
DaysPerYear == 5     \* days of a model calendar year
FirstYear == 2001    \* first calendar year a request may name
MaxSpan == 1         \* requests name years FirstYear..FirstYear+MaxSpan
RandDen == 2         \* Math.random() yields k/RandDen, k in 0..RandDen-1
MaxShort == 3        \* longest short series handed to the analysis suite
MaxExtra == 1        \* long series run up to MinSamples + MaxExtra samples
MaxClock == 2        \* Date.now() falls on one of the days 1..MaxClock
MaxInFlight == 2     \* requests waiting for dispatch at one time
MaxAnalysisDay == 3  \* latest end_date of an analysis request

\* ------------------------------------------------------- representation
Null == -1
NaN == -2
SmoothScale == 3 * 4 * 5       \* every window count 1..5 divides it
ThrScale == 5                  \* 0.4 = 2/5
ConfScale == 100 * SmoothScale

At(a, i) == a[i + 1]
Max(a, b) == IF a > b THEN a ELSE b
Min(a, b) == IF a < b THEN a ELSE b
Abs(a) == IF a < 0 THEN -a ELSE a

VARIABLES
  data,      \* analytics harness: the series handed to the function
  called,    \* analytics harness: the function applied, "none" before
  ret,       \* analytics harness: what the function returned
  raised,    \* analytics harness: TRUE iff the call threw
  arg,       \* analytics harness: movingAverage's windowSize, Null for the
             \* functions that take the series alone
  cache,     \* the NodeCache: cache key -> cached payload
  pc,        \* /api/phenology handler: "idle", "await" (suspended at the
             \* await of the per-year loop) or "done" (response sent)
  query,     \* req.query of the request being handled
  year,      \* loop variable of the per-year loop
  perYear,   \* the records pushed so far
  fetched,   \* the series the sample source returned, one per pushed record
  res,       \* the response sent
  inflight,  \* /api/phenology requests received and not yet dispatched
  overlapped,\* TRUE iff the request being handled was received while an
             \* earlier request of the same cache key was suspended between
             \* its cache.get and its cache.set
  va,        \* /api/vegetation/analysis: the exchange being handled
  rs,        \* /api/vegetation/real/series: the handler's position and locals
  cmr        \* getCmrCollectionConceptId: the call's position and locals

coreVars == <<data, called, ret, raised, arg>>
handlerVars == <<cache, pc, query, year, perYear, fetched, res>>
flightVars == <<inflight, overlapped>>
extVars == <<va, rs, cmr>>
vars == <<coreVars, handlerVars, flightVars, extVars>>

\* --------------------------------------------------------------- dates
DayNumber(y, day) == (y - FirstYear) * DaysPerYear + day

\* d.getFullYear()
getFullYear(date) == FirstYear + ((date - 1) \div DaysPerYear)

\* dayOfYear: whole days between the date and day 0 of its year
dayOfYear(dateStr) ==
  LET d == dateStr
      start == DayNumber(getFullYear(d), 0)
  IN  d - start

\* ------------------------------------------------------------ smoother
RECURSIVE WindowSum(_, _, _)
WindowSum(values, j, hi) ==
  IF j > hi THEN [sum |-> 0, count |-> 0]
  ELSE LET r == WindowSum(values, j + 1, hi)
       IN  IF j >= 0 /\ j < Len(values)
           THEN [sum |-> r.sum + At(values, j), count |-> r.count + 1]
           ELSE r

movingAveragePadded(values, windowSize) ==
  LET half == windowSize \div 2
  IN  [k \in 1..Len(values) |->
         LET i == k - 1
             w == WindowSum(values, i - half, i + half)
         IN  (SmoothScale * w.sum) \div (2 * half + 1)]

movingAverage(values, windowSize) ==
  LET half == windowSize \div 2
  IN  [k \in 1..Len(values) |->
         LET i == k - 1
             w == WindowSum(values, i - half, i + half)
         IN  IF w.count # 0 THEN (SmoothScale * w.sum) \div w.count
             ELSE SmoothScale * At(values, i)]

\* series.map(d => d.value)
ValuesOf(series) == [k \in 1..Len(series) |-> series[k].value]

\* -------------------------------------------------------- bloom detector
RECURSIVE InsertAsc(_, _)
InsertAsc(x, s) ==
  IF s = <<>> THEN <<x>>
  ELSE IF x <= Head(s) THEN <<x>> \o s
  ELSE <<Head(s)>> \o InsertAsc(x, Tail(s))

RECURSIVE SortAsc(_)
SortAsc(s) == IF s = <<>> THEN <<>> ELSE InsertAsc(Head(s), SortAsc(Tail(s)))

PercentileRankCeil(pct, n) == (pct * (n - 1) + 99) \div 100

\* Math.floor(pct/100 * (n - 1))
PercentileRank(pct, n) == (pct * (n - 1)) \div 100

P10(values) == At(SortAsc(values), PercentileRank(10, Len(values)))
P90(values) == At(SortAsc(values), PercentileRank(90, Len(values)))

\* threshold = p10 + 0.4 * (p90 - p10), in units of 1/(ThrScale*SmoothScale)
Threshold(values) == ThrScale * P10(values) + 2 * (P90(values) - P10(values))

Below(v, threshold) == ThrScale * v < threshold

\* for (i = 1; i < n; i++) if (v[i-1] < t && v[i] >= t) { onsetIdx = i; break }
RECURSIVE OnsetScan(_, _, _)
OnsetScan(values, threshold, i) ==
  IF i >= Len(values) THEN -1
  ELSE IF Below(At(values, i - 1), threshold) /\ ~Below(At(values, i), threshold)
       THEN i
       ELSE OnsetScan(values, threshold, i + 1)

OnsetIdx(values) == OnsetScan(values, Threshold(values), 1)

RECURSIVE PeakScanLast(_, _, _)
PeakScanLast(values, best, i) ==
  IF i >= Len(values) THEN best
  ELSE PeakScanLast(values, IF At(values, i) >= At(values, best) THEN i ELSE best, i + 1)

\* values.reduce((best, v, i) => v > values[best] ? i : best, 0)
RECURSIVE PeakScan(_, _, _)
PeakScan(values, best, i) ==
  IF i >= Len(values) THEN best
  ELSE PeakScan(values, IF At(values, i) > At(values, best) THEN i ELSE best, i + 1)

PeakIdx(values) == PeakScan(values, 0, 0)

RECURSIVE EndScanFromPeak(_, _, _, _)
EndScanFromPeak(values, threshold, peakIdx, i) ==
  IF i < peakIdx THEN -1
  ELSE IF Below(At(values, i + 1), threshold) /\ ~Below(At(values, i), threshold)
       THEN i + 1
       ELSE EndScanFromPeak(values, threshold, peakIdx, i - 1)

RECURSIVE EndScanLastAbove(_, _, _, _)
EndScanLastAbove(values, threshold, peakIdx, i) ==
  IF i <= peakIdx THEN -1
  ELSE IF Below(At(values, i + 1), threshold) /\ ~Below(At(values, i), threshold)
       THEN i
       ELSE EndScanLastAbove(values, threshold, peakIdx, i - 1)

\* for (i = n-2; i > peakIdx; i--) if (v[i+1] < t && v[i] >= t) { endIdx = i+1; break }
RECURSIVE EndScan(_, _, _, _)
EndScan(values, threshold, peakIdx, i) ==
  IF i <= peakIdx THEN -1
  ELSE IF Below(At(values, i + 1), threshold) /\ ~Below(At(values, i), threshold)
       THEN i + 1
       ELSE EndScan(values, threshold, peakIdx, i - 1)

EndIdx(values) == EndScan(values, Threshold(values), PeakIdx(values), Len(values) - 2)

emptyDetectionZeroConfidence ==
  [onsetDate |-> Null, peakDate |-> Null, endDate |-> Null, peakValue |-> Null,
   durationDays |-> Null, confidence |-> 0]

emptyDetection ==
  [onsetDate |-> Null, peakDate |-> Null, endDate |-> Null, peakValue |-> Null,
   durationDays |-> Null, confidence |-> ConfScale \div 2]

DurationDaysUnfloored(onsetDate, endDate) ==
  IF onsetDate # Null /\ endDate # Null THEN endDate - onsetDate ELSE Null

\* Math.max(0, (new Date(endDate) - new Date(onsetDate)) / day) or null
DurationDays(onsetDate, endDate) ==
  IF onsetDate # Null /\ endDate # Null THEN Max(0, endDate - onsetDate) ELSE Null

\* Math.max(0.5, Math.min(0.95, 0.5 + spread * 0.8)) * completeness
Confidence(spread, complete) ==
  LET clamped == Max(ConfScale \div 2,
                     Min(95 * SmoothScale, (ConfScale \div 2) + 80 * spread))
  IN  IF complete THEN clamped ELSE (6 * clamped) \div 10

\* series[idx].date read with idx outside the array throws a TypeError
DetectBloomRaises(series, smoothedValues) ==
  /\ Len(series) # 0
  /\ \/ OnsetIdx(smoothedValues) >= Len(series)
     \/ EndIdx(smoothedValues) >= Len(series)

detectBloom(series, smoothedValues) ==
  IF Len(series) = 0 THEN emptyDetection
  ELSE
    LET values == smoothedValues
        onsetIdx == OnsetIdx(values)
        peakIdx == PeakIdx(values)
        endIdx == EndIdx(values)
        onsetDate == IF onsetIdx >= 0 THEN At(series, onsetIdx).date ELSE Null
        peakDate == IF peakIdx < Len(series) THEN At(series, peakIdx).date ELSE Null
        endDate == IF endIdx >= 0 THEN At(series, endIdx).date ELSE Null
        spread == Max(0, P90(values) - P10(values))
        complete == onsetDate # Null /\ peakDate # Null /\ endDate # Null
    IN  [onsetDate |-> onsetDate, peakDate |-> peakDate, endDate |-> endDate,
         peakValue |-> At(values, peakIdx),
         durationDays |-> DurationDays(onsetDate, endDate),
         confidence |-> Confidence(spread, complete)]

\* ------------------------------------------------------- trend analyzer
RECURSIVE SumSeq(_)
SumSeq(s) == IF s = <<>> THEN 0 ELSE Head(s) + SumSeq(Tail(s))

\* values.reduce((sum, val, i) => sum + val * i, 0)
WeightedSum(values) == SumSeq([k \in 1..Len(values) |-> values[k] * (k - 1)])

\* values.reduce((sum, val, i) => sum + i * i, 0)
SquareSum(values) == SumSeq([k \in 1..Len(values) |-> (k - 1) * (k - 1)])

\* The slope (n*sumXY - sumX*sumY) / (n*sumX2 - sumX*sumX) as the pair num/den;
\* the source accumulates val * i into sumY as well as into sumXY.
calculateLinearTrend(values) ==
  LET n == Len(values)
      sumX == (n * (n - 1)) \div 2
      sumY == WeightedSum(values)
      sumXY == WeightedSum(values)
      sumX2 == SquareSum(values)
  IN  [num |-> n * sumXY - sumX * sumY, den |-> n * sumX2 - sumX * sumX]

\* (num/den).toFixed(4) for num >= 0, den > 0: the nearest multiple of 1/10000,
\* the larger one on a tie, as a count of 1/10000 (whole part and fraction
\* apart, to stay inside the integers TLC computes with)
ToFixed4(num, den) ==
  10000 * (num \div den) + (2 * 10000 * (num % den) + den) \div (2 * den)

\* 0.85 + Math.random() * 0.1 in thousandths, Math.random() = k/RandDen
TrendConfidence(k) == 850 + (100 * k) \div RandDen

analyzeTrendsGuardAtThree(series, k) ==
  IF Len(series) < 3 THEN [trend |-> "Insufficient data", confidence |-> 0]
  ELSE
    LET values == ValuesOf(series)
        trend == calculateLinearTrend(values)
    IN  [direction |-> IF trend.num > 0 THEN "Increasing" ELSE "Decreasing",
         magnitude |-> ToFixed4(Abs(trend.num), trend.den),
         confidence |-> TrendConfidence(k),
         significance |-> IF 100 * trend.num > trend.den
                          THEN "Significant" ELSE "Not significant"]

analyzeTrends(series, k) ==
  IF Len(series) < 2 THEN [trend |-> "Insufficient data", confidence |-> 0]
  ELSE
    LET values == ValuesOf(series)
        trend == calculateLinearTrend(values)
    IN  [direction |-> IF trend.num > 0 THEN "Increasing" ELSE "Decreasing",
         magnitude |-> ToFixed4(Abs(trend.num), trend.den),
         confidence |-> TrendConfidence(k),
         significance |-> IF 100 * trend.num > trend.den
                          THEN "Significant" ELSE "Not significant"]

\* ------------------------------------------------------ anomaly detector
\* mean = total/n and stdDev^2 = sq/n^3 with sq the sum of (n*val - total)^2,
\* so Math.abs(val - mean) > 2 * stdDev is n*(n*val - total)^2 > 4*sq.
DeviationSquares(values) ==
  LET n == Len(values)
      total == SumSeq(values)
  IN  SumSeq([k \in 1..n |-> (n * values[k] - total) * (n * values[k] - total)])

IsAnomalyInclusive(series, d) ==
  LET values == ValuesOf(series)
      n == Len(values)
      dev == n * d.value - SumSeq(values)
  IN  n * dev * dev >= 4 * DeviationSquares(values)

IsAnomaly(series, d) ==
  LET values == ValuesOf(series)
      n == Len(values)
      dev == n * d.value - SumSeq(values)
  IN  n * dev * dev > 4 * DeviationSquares(values)

detectAnomalies(series) ==
  LET Flagged(d) == IsAnomaly(series, d)
      anomalies == SelectSeq(series, Flagged)
  IN  [count |-> Len(anomalies),
       dates |-> [k \in 1..Len(anomalies) |-> anomalies[k].date],
       severity |-> IF Len(anomalies) > 0 THEN "Moderate" ELSE "None detected"]

\* ------------------------------------------------- seasonality analyzer
MonthsPerYear == 12

\* date.getMonth(): the days of a model year fall evenly over the 12 months
getMonth(date) == (((date - 1) % DaysPerYear) * MonthsPerYear) \div DaysPerYear

MonthNames ==
  <<"January", "February", "March", "April", "May", "June", "July", "August",
    "September", "October", "November", "December">>

\* new Date(2024, month, 1).toLocaleDateString('en-US', { month: 'long' })
MonthName(month) == At(MonthNames, month)

InMonth(series, month) ==
  LET Hit(item) == getMonth(item.date) = month
  IN  SelectSeq(series, Hit)

\* monthlyData[month] and monthlyCounts[month] after the forEach
MonthlyData(series, month) == SumSeq(ValuesOf(InMonth(series, month)))
MonthlyCounts(series, month) == Len(InMonth(series, month))

\* An average is the exact fraction num/den, den > 0.
RatLess(a, b) == a.num * b.den < b.num * a.den
RatEq(a, b) == a.num * b.den = b.num * a.den

\* monthlyCounts[index] > 0 ? sum / monthlyCounts[index] : 0
MonthlyAverages(series) ==
  [k \in 1..MonthsPerYear |->
     IF MonthlyCounts(series, k - 1) > 0
     THEN [num |-> MonthlyData(series, k - 1), den |-> MonthlyCounts(series, k - 1)]
     ELSE [num |-> 0, den |-> 1]]

\* averages.indexOf(Math.max(...averages))
RECURSIVE IndexOfFrom(_, _, _)
IndexOfFrom(averages, x, i) ==
  IF i >= Len(averages) THEN -1
  ELSE IF RatEq(At(averages, i), x) THEN i
  ELSE IndexOfFrom(averages, x, i + 1)

RECURSIVE MaxOf(_, _)
MaxOf(averages, i) ==
  IF i = Len(averages) - 1 THEN At(averages, i)
  ELSE LET m == MaxOf(averages, i + 1)
       IN  IF RatLess(m, At(averages, i)) THEN At(averages, i) ELSE m

RECURSIVE MinOf(_, _)
MinOf(averages, i) ==
  IF i = Len(averages) - 1 THEN At(averages, i)
  ELSE LET m == MinOf(averages, i + 1)
       IN  IF RatLess(At(averages, i), m) THEN At(averages, i) ELSE m

PeakMonthLast(averages) ==
  CHOOSE i \in 0..(Len(averages) - 1) :
    /\ RatEq(At(averages, i), MaxOf(averages, 0))
    /\ \A j \in (i + 1)..(Len(averages) - 1) : ~RatEq(At(averages, j), MaxOf(averages, 0))

PeakMonth(averages) == IndexOfFrom(averages, MaxOf(averages, 0), 0)
TroughMonth(averages) == IndexOfFrom(averages, MinOf(averages, 0), 0)

analyzeSeasonality(series) ==
  LET monthlyAverages == MonthlyAverages(series)
  IN  [peak_month |-> MonthName(PeakMonth(monthlyAverages)),
       trough_month |-> MonthName(TroughMonth(monthlyAverages)),
       seasonal_strength |-> "Strong",
       pattern_type |-> "Annual cycle",
       monthly_patterns |-> monthlyAverages]

\* -------------------------------------------------------------- predictor
MinSamplesLower == 30 - 1
MinSamples == 30       \* data.length < 30
RecentCount == 10      \* data.slice(-10)
HorizonDays == 30      \* for (i = 1; i <= 30; i++)

\* data.slice(-10).map(d => d.value)
RecentValues(series) ==
  LET values == ValuesOf(series)
      n == Len(values)
  IN  IF n <= RecentCount THEN values ELSE SubSeq(values, n - RecentCount + 1, n)

PredictedValueUnclamped(lastValue, trend, i) ==
  [num |-> lastValue * trend.den + trend.num * i, den |-> trend.den]

\* Math.max(0, Math.min(1, lastValue + trend * i)) as num/den, trend.den > 0
PredictedValue(lastValue, trend, i) ==
  LET x == lastValue * trend.den + trend.num * i
  IN  [num |-> Max(0, Min(trend.den, x)), den |-> trend.den]

\* (num/den).toFixed(3) for num >= 0, den > 0, as a count of 1/1000
ToFixed3(num, den) == (2 * 1000 * num + den) \div (2 * den)

\* Math.max(0.5, 0.9 - i * 0.01) in hundredths
PredictionConfidence(i) == Max(50, 90 - i)

\* now is the day of Date.now(); a prediction is dated now + i days
generatePredictions(series, now) ==
  IF Len(series) < MinSamples THEN [predictions |-> <<>>, confidence |-> "Low"]
  ELSE
    LET recentValues == RecentValues(series)
        trend == calculateLinearTrend(recentValues)
        lastValue == At(recentValues, Len(recentValues) - 1)
    IN  [predictions |->
           [i \in 1..HorizonDays |->
              LET predictedValue == PredictedValue(lastValue, trend, i)
              IN  [date |-> now + i,
                   predicted_value |-> ToFixed3(predictedValue.num, predictedValue.den),
                   confidence |-> PredictionConfidence(i)]],
         confidence |-> "Medium",
         methodology |-> "Linear trend extrapolation"]

\* -------------------------------------------------------- recommendations
generateRecommendationsLastSampleOnly(series, k) ==
  LET trend == analyzeTrends(series, k)
      low == IF Len(series) > 0 /\ 10 * At(series, Len(series) - 1).value < 3
             THEN <<"Low vegetation detected - consider environmental factors">>
             ELSE <<>>
      declining == IF "direction" \in DOMAIN trend /\ trend.direction = "Decreasing"
                   THEN <<"Declining trend observed - investigate causes">>
                   ELSE <<>>
      limited == IF Len(series) < MinSamples
                 THEN <<"Limited data available - continue monitoring">>
                 ELSE <<>>
  IN  low \o declining \o limited
        \o <<"Monitor weather conditions for correlation",
             "Consider seasonal variations in analysis">>

\* The list of advisories, in the order they are pushed.
generateRecommendations(series, k) ==
  LET currentValue == IF Len(series) > 0 THEN At(series, Len(series) - 1).value ELSE 0
      trend == analyzeTrends(series, k)
      low == IF 10 * currentValue < 3
             THEN <<"Low vegetation detected - consider environmental factors">>
             ELSE <<>>
      declining == IF "direction" \in DOMAIN trend /\ trend.direction = "Decreasing"
                   THEN <<"Declining trend observed - investigate causes">>
                   ELSE <<>>
      limited == IF Len(series) < MinSamples
                 THEN <<"Limited data available - continue monitoring">>
                 ELSE <<>>
  IN  low \o declining \o limited
        \o <<"Monitor weather conditions for correlation",
             "Consider seasonal variations in analysis">>

\* ------------------------------------------------- GET /api/phenology
Years == FirstYear..(FirstYear + MaxSpan)

\* The random variation of the simulated source, as two noise levels.  Over a
\* model year the seasonal term is flat against the noise, so every pattern of
\* levels is a series the source can return.
NoiseLevels == {0, 1}

\* Query-string values a request may carry; "" is an absent parameter (an
\* absent index_type takes the default 'NDVI').
Latitudes == {40}
Longitudes == {0 - 74}
LatInputs == {""} \cup {ToString(n) : n \in Latitudes}
LonInputs == {ToString(n) : n \in Longitudes}
YearInputs == {ToString(y) : y \in Years} \cup {"abc"}
IndexInputs == {""}

Queries ==
  [lat : LatInputs, lon : LonInputs, start_year : YearInputs,
   end_year : YearInputs, index_type : IndexInputs]

NoQuery == [lat |-> "", lon |-> "", start_year |-> "", end_year |-> "", index_type |-> ""]
NoResponse == [status |-> 0]

\* parseInt of a decimal year string, NaN for anything else
parseInt(str) ==
  IF \E y \in Years : ToString(y) = str
  THEN CHOOSE y \in Years : ToString(y) = str
  ELSE NaN

\* The numbers a coordinate string may spell.
Coordinates == Latitudes \cup Longitudes \cup {0 - n : n \in Longitudes}

\* parseFloat: the number spelled by the longest numeric prefix of the string
\* (a decimal number, or a decimal number followed by "-"), NaN when the
\* string has no numeric prefix
parseFloat(str) ==
  IF \E n \in Coordinates : ToString(n) = str
  THEN CHOOSE n \in Coordinates : ToString(n) = str
  ELSE IF \E n \in Coordinates : ToString(n) \o "-" = str
  THEN CHOOSE n \in Coordinates : ToString(n) \o "-" = str
  ELSE NaN

\* a number inside a template literal
NumberToString(n) == IF n = NaN THEN "NaN" ELSE ToString(n)

\* < and <= of JavaScript numbers: false when either side is NaN
LtNever(a, b) == FALSE
Lt(a, b) == a # NaN /\ b # NaN /\ a < b
Le(a, b) == a # NaN /\ b # NaN /\ a <= b

\* const { ..., index_type = 'NDVI' } = req.query
IndexType(q) == IF q.index_type = "" THEN "NDVI" ELSE q.index_type

\* `phenology-${lat}-${lon}-${sy}-${ey}-${index_type}`
CacheKey(q) ==
  "phenology-" \o q.lat \o "-" \o q.lon \o "-"
    \o NumberToString(parseInt(q.start_year)) \o "-"
    \o NumberToString(parseInt(q.end_year)) \o "-" \o IndexType(q)

\* getMultiSourceVegetationData for the range startDate..endDate: one sample
\* per i in 0..days-1, days = ceil((end - start) / day), dated start + i,
\* valued by the random draw noise[i].  lat, lon and indexType only shift the
\* level all samples of a series share.
SourceDays(startDate, endDate) == endDate - startDate

getMultiSourceVegetationData(startDate, endDate, noise) ==
  [k \in 1..SourceDays(startDate, endDate) |->
     [date |-> startDate + (k - 1), value |-> noise[k]]]

\* `${year}-01-01` and `${year}-12-31`
YearStart(y) == DayNumber(y, 1)
YearEnd(y) == DayNumber(y, DaysPerYear)

YearRecord(y, detection) ==
  [year |-> y,
   onset_date |-> detection.onsetDate,
   peak_date |-> detection.peakDate,
   end_date |-> detection.endDate,
   peak_value |-> detection.peakValue,
   duration_days |-> detection.durationDays,
   confidence |-> detection.confidence]

DetectYearWindow3(series) == detectBloom(series, movingAverage(ValuesOf(series), 3))

\* movingAverage(series.map(d => d.value), 5) handed to detectBloom
DetectYear(series) == detectBloom(series, movingAverage(ValuesOf(series), 5))

MedianPeakDoyLowerMiddle(peakDoys) ==
  IF Len(peakDoys) # 0
  THEN At(SortAsc(peakDoys), (Len(peakDoys) - 1) \div 2)
  ELSE Null

MedianPeakDoyUnsorted(peakDoys) ==
  IF Len(peakDoys) # 0
  THEN At(peakDoys, Len(peakDoys) \div 2)
  ELSE Null

\* peakDoys.length ? Math.round(sorted[Math.floor(length / 2)]) : null; the
\* days of year are whole numbers, which Math.round leaves alone
MedianPeakDoy(peakDoys) ==
  IF Len(peakDoys) # 0
  THEN At(SortAsc(peakDoys), Len(peakDoys) \div 2)
  ELSE Null

HasOnset(y) == y.onset_date # Null

\* y => y.peak_date
HasPeak(y) == y.peak_date # Null

\* perYear.filter(y => y.peak_date).map(y => dayOfYear(y.peak_date))
PeakDoys(records) ==
  LET withPeak == SelectSeq(records, HasPeak)
  IN  [k \in 1..Len(withPeak) |-> dayOfYear(withPeak[k].peak_date)]

Summary(records) ==
  [num_years |-> Len(records),
   years_with_bloom |-> Len(SelectSeq(records, HasPeak)),
   median_peak_day_of_year |-> MedianPeakDoy(PeakDoys(records))]

Payload(q, records) ==
  [location |-> [lat |-> parseFloat(q.lat), lon |-> parseFloat(q.lon)],
   index_type |-> IndexType(q),
   years |-> records,
   summary |-> Summary(records)]

CacheSetDropped(c, key, payload) == c

\* cache.set(cacheKey, payload)
CacheSet(c, key, payload) ==
  [k \in (DOMAIN c) \cup {key} |-> IF k = key THEN payload ELSE c[k]]

InitHandler ==
  /\ cache = <<>>
  /\ pc = "idle"
  /\ query = NoQuery
  /\ year = Null
  /\ perYear = <<>>
  /\ fetched = <<>>
  /\ res = NoResponse

\* No request waits for dispatch.
InitFlight ==
  /\ inflight = {}
  /\ overlapped = FALSE

\* The other endpoints and the CMR lookup are at rest.
NoAnalysis == [pc |-> "idle", failed |-> FALSE, key |-> "", res |-> NoResponse]
NoReply == [kind |-> "none", status |-> 0, jobStatus |-> "", links |-> <<>>]
NoSeries ==
  [pc |-> "idle", attempts |-> 0, status |-> "", links |-> <<>>, polls |-> 0,
   reply |-> NoReply, sent |-> <<>>]
NullString == "<null>"      \* null in the place of a string
NoLookup ==
  [pc |-> "idle", provider |-> "", issued |-> <<>>, replies |-> <<>>,
   result |-> NullString, caught |-> FALSE, raised |-> FALSE]

InitExt ==
  /\ va = NoAnalysis
  /\ rs = NoSeries
  /\ cmr = NoLookup

\* The handler from its entry to its first await or to its response.  A
\* request arrives while the cache holds no entry of another key: a query is
\* repeated, or follows the expiry of the entries before it.
Request(q) ==
  /\ pc = "idle"
  /\ DOMAIN cache \subseteq {CacheKey(q)}
  /\ query' = q
  /\ LET sy == parseInt(q.start_year)
         ey == parseInt(q.end_year)
         cacheKey == CacheKey(q)
     IN  IF q.lat = "" \/ q.lon = "" \/ q.start_year = "" \/ q.end_year = ""
         THEN /\ res' = [status |-> 400,
                         error |-> "lat, lon, start_year, end_year are required"]
              /\ pc' = "done"
              /\ UNCHANGED <<cache, year, perYear, fetched>>
         ELSE IF Lt(ey, sy)
         THEN /\ res' = [status |-> 400, error |-> "end_year must be >= start_year"]
              /\ pc' = "done"
              /\ UNCHANGED <<cache, year, perYear, fetched>>
         ELSE IF cacheKey \in DOMAIN cache
         THEN /\ res' = [status |-> 200, body |-> cache[cacheKey]]
              /\ pc' = "done"
              /\ UNCHANGED <<cache, year, perYear, fetched>>
         ELSE IF Le(sy, ey)
         THEN /\ pc' = "await"
              /\ year' = sy
              /\ perYear' = <<>>
              /\ fetched' = <<>>
              /\ UNCHANGED <<cache, res>>
         ELSE /\ pc' = "done"
              /\ year' = sy
              /\ perYear' = <<>>
              /\ fetched' = <<>>
              /\ cache' = CacheSet(cache, cacheKey, Payload(q, <<>>))
              /\ res' = [status |-> 200, body |-> Payload(q, <<>>)]
  /\ UNCHANGED <<coreVars, extVars>>

\* One turn of the loop, resumed after the await: the series arrives, is
\* smoothed and detected, its record pushed; after the last year the summary is
\* built, cached and sent.
YearStep ==
  /\ pc = "await"
  /\ \E noise \in [1..SourceDays(YearStart(year), YearEnd(year)) -> NoiseLevels] :
       LET series == getMultiSourceVegetationData(YearStart(year), YearEnd(year), noise)
           detection == DetectYear(series)
           records == Append(perYear, YearRecord(year, detection))
           payload == Payload(query, records)
       IN  /\ perYear' = records
           /\ fetched' = Append(fetched, series)
           /\ year' = year + 1
           /\ IF Le(year + 1, parseInt(query.end_year))
              THEN /\ pc' = "await"
                   /\ UNCHANGED <<cache, res>>
              ELSE /\ pc' = "done"
                   /\ cache' = CacheSet(cache, CacheKey(query), payload)
                   /\ res' = [status |-> 200, body |-> payload]
  /\ UNCHANGED <<query, coreVars, extVars>>

\* The handler has returned: its locals and the exchange are gone.
Return ==
  /\ pc = "done"
  /\ pc' = "idle"
  /\ query' = NoQuery
  /\ year' = Null
  /\ perYear' = <<>>
  /\ fetched' = <<>>
  /\ res' = NoResponse
  /\ UNCHANGED <<cache, coreVars, extVars>>

\* stdTTL: an entry older than CACHE_TTL seconds is dropped, by the cache's
\* periodic check or by the next cache.get.  The handler never yields to a timer
\* (its awaits resume as microtasks), so an entry goes between two requests.
Expire ==
  /\ pc = "idle"
  /\ \E key \in DOMAIN cache : cache' = [k \in (DOMAIN cache) \ {key} |-> cache[k]]
  /\ UNCHANGED <<pc, query, year, perYear, fetched, res, coreVars, extVars>>

Init ==
  /\ InitHandler
  /\ InitFlight
  /\ InitExt
  /\ data = <<>> /\ called = "none" /\ ret = Null /\ raised = FALSE /\ arg = Null

Next ==
  \/ \E q \in Queries : Request(q) /\ UNCHANGED flightVars
  \/ YearStep /\ UNCHANGED flightVars
  \/ Return /\ UNCHANGED flightVars
  \/ Expire /\ UNCHANGED flightVars

Spec == Init /\ [][Next]_vars

\* ------------------------------------------- requests around one cache key
\* Requests for the first year whose coordinate strings differ: a well-formed
\* number, or one with a trailing "-", which parseFloat reads as the number
\* before it.
KeyLatInputs == {ToString(n) : n \in Latitudes} \cup {ToString(n) \o "-" : n \in Latitudes}
KeyLonInputs == {ToString(n) : n \in Longitudes} \cup {ToString(0 - n) : n \in Longitudes}

KeyQueries ==
  [lat : KeyLatInputs, lon : KeyLonInputs, start_year : {ToString(FirstYear)},
   end_year : {ToString(FirstYear)}, index_type : {"", "NDVI", "EVI"}]

NextKeys ==
  \/ \E q \in KeyQueries : Request(q) /\ UNCHANGED flightVars
  \/ YearStep /\ UNCHANGED flightVars
  \/ Return /\ UNCHANGED flightVars
  \/ Expire /\ UNCHANGED flightVars

SpecKeys == Init /\ [][NextKeys]_vars

\* ------------------------------------------ requests in flight at one time
\* Requests of the first year; an absent index_type and 'NDVI' share a cache
\* key, 'EVI' has its own.
FlightQueries ==
  [lat : {ToString(n) : n \in Latitudes}, lon : {ToString(n) : n \in Longitudes},
   start_year : {ToString(FirstYear)}, end_year : {ToString(FirstYear)},
   index_type : {"", "NDVI", "EVI"}]

\* A request is received at any moment, also while the handler of an earlier
\* one is suspended at its await; it waits in the event loop's queue.
Arrive(q) ==
  /\ Cardinality(inflight) < MaxInFlight
  /\ inflight' = inflight \cup
       {[q |-> q, overlapped |-> pc = "await" /\ CacheKey(q) = CacheKey(query)]}
  /\ UNCHANGED <<overlapped, handlerVars, coreVars, extVars>>

\* The event loop hands a waiting request to the handler.  It does so between
\* two macrotasks: the handler's awaits are on promises that are already
\* resolved (getMultiSourceVegetationData awaits nothing), so the steps from
\* cache.get to cache.set run as consecutive microtasks and no other request is
\* dispatched between them.
Serve ==
  \E r \in inflight :
    /\ Request(r.q)
    /\ inflight' = inflight \ {r}
    /\ overlapped' = r.overlapped

ReturnFlight ==
  /\ Return
  /\ overlapped' = FALSE
  /\ UNCHANGED inflight

NextFlight ==
  \/ \E q \in FlightQueries : Arrive(q)
  \/ Serve
  \/ YearStep /\ UNCHANGED flightVars
  \/ ReturnFlight
  \/ Expire /\ UNCHANGED flightVars

SpecFlight == Init /\ [][NextFlight]_vars

\* ------------------------------------------------------ analytics harness
\* Series of length 0..MaxLen, values 0..MaxVal, dates strictly increasing.
SeriesOf(vals, firstDay, gap) ==
  [k \in 1..Len(vals) |-> [date |-> firstDay + gap * (k - 1), value |-> vals[k]]]

ValueSeqs == UNION {[1..n -> 0..MaxVal] : n \in 0..MaxLen}

\* The series the specification's testable properties name.
ExampleSeqs == {<<0, 1, 2, 3, 4, 5>>}

InitCore ==
  /\ data \in {SeriesOf(v, 1, g) : v \in ValueSeqs \cup ExampleSeqs, g \in 1..MaxGap}
  /\ called = "none"
  /\ ret = Null
  /\ raised = FALSE
  /\ arg = Null
  /\ InitHandler
  /\ InitFlight
  /\ InitExt

\* detectBloom(series, movingAverage(series.map(d => d.value), 5))
CallDetectBloom ==
  /\ called = "none"
  /\ called' = "detectBloom"
  /\ LET smoothed == movingAverage(ValuesOf(data), 5)
     IN  /\ raised' = DetectBloomRaises(data, smoothed)
         /\ ret' = IF raised' THEN Null ELSE detectBloom(data, smoothed)
  /\ UNCHANGED <<data, arg, handlerVars, flightVars, extVars>>

CallAnalyzeTrends ==
  /\ called = "none"
  /\ called' = "analyzeTrends"
  /\ \E k \in 0..(RandDen - 1) : ret' = analyzeTrends(data, k)
  /\ raised' = FALSE
  /\ UNCHANGED <<data, arg, handlerVars, flightVars, extVars>>

CallDetectAnomalies ==
  /\ called = "none"
  /\ called' = "detectAnomalies"
  /\ ret' = detectAnomalies(data)
  /\ raised' = FALSE
  /\ UNCHANGED <<data, arg, handlerVars, flightVars, extVars>>

NextCore == CallDetectBloom \/ CallAnalyzeTrends \/ CallDetectAnomalies

SpecCore == InitCore /\ [][NextCore]_vars

\* ------------------------------------------------------- analysis suite
\* The whole suite on one series: every short series, long series of
\* MinSamples - 1 .. MinSamples + MaxExtra samples that hold one level up to
\* their last two samples, and the two-year series whose January samples are
\* 1 and whose other samples are 0.  Long series also take values below 0.
ShortSeqs == UNION {[1..n -> 0..MaxVal] : n \in 0..MaxShort}

LongVals == {0 - 1} \cup (0..MaxVal)

LongSeqs ==
  {[k \in 1..n |-> IF k < n - 1 THEN level ELSE IF k = n - 1 THEN a ELSE b] :
     n \in (MinSamples - 1)..(MinSamples + MaxExtra),
     level \in LongVals, a \in LongVals, b \in LongVals}

JanuarySeqs == {[k \in 1..(2 * DaysPerYear) |-> IF getMonth(k) = 0 THEN 1 ELSE 0]}

\* The window sizes movingAverage is tried with; the handler uses 5.
Windows == {1, 2, 3, 4, 5}

Clock == 1..MaxClock

InitSuite ==
  /\ data \in {SeriesOf(v, 1, g) : v \in ShortSeqs \cup LongSeqs \cup JanuarySeqs,
                                  g \in 1..MaxGap}
  /\ called = "none"
  /\ ret = Null
  /\ raised = FALSE
  /\ arg = Null
  /\ InitHandler
  /\ InitFlight
  /\ InitExt

\* What an invocation of function f on the series, with window size w, can
\* return: one result for each random draw and each day of Date.now() that
\* the function reads.
Outcomes(f, series, w) ==
  CASE f = "movingAverage" -> {movingAverage(ValuesOf(series), w)}
    [] f = "detectBloom" ->
         {IF DetectBloomRaises(series, movingAverage(ValuesOf(series), 5)) THEN Null
          ELSE detectBloom(series, movingAverage(ValuesOf(series), 5))}
    [] f = "analyzeTrends" -> {analyzeTrends(series, k) : k \in 0..(RandDen - 1)}
    [] f = "detectAnomalies" -> {detectAnomalies(series)}
    [] f = "analyzeSeasonality" -> {analyzeSeasonality(series)}
    [] f = "generatePredictions" -> {generatePredictions(series, now) : now \in Clock}
    [] f = "generateRecommendations" ->
         {generateRecommendations(series, k) : k \in 0..(RandDen - 1)}

\* movingAverage(series.map(d => d.value), windowSize)
CallMovingAverage ==
  /\ called = "none"
  /\ called' = "movingAverage"
  /\ \E w \in Windows :
       /\ arg' = w
       /\ ret' = movingAverage(ValuesOf(data), w)
  /\ raised' = FALSE
  /\ UNCHANGED <<data, handlerVars, flightVars, extVars>>

CallAnalyzeSeasonality ==
  /\ called = "none"
  /\ called' = "analyzeSeasonality"
  /\ ret' = analyzeSeasonality(data)
  /\ raised' = FALSE
  /\ UNCHANGED <<data, arg, handlerVars, flightVars, extVars>>

CallGeneratePredictions ==
  /\ called = "none"
  /\ called' = "generatePredictions"
  /\ \E now \in Clock : ret' = generatePredictions(data, now)
  /\ raised' = FALSE
  /\ UNCHANGED <<data, arg, handlerVars, flightVars, extVars>>

CallGenerateRecommendations ==
  /\ called = "none"
  /\ called' = "generateRecommendations"
  /\ \E k \in 0..(RandDen - 1) : ret' = generateRecommendations(data, k)
  /\ raised' = FALSE
  /\ UNCHANGED <<data, arg, handlerVars, flightVars, extVars>>

\* The function is invoked once more on the same input.
Reinvoke ==
  /\ called # "none"
  /\ ret' \in Outcomes(called, data, arg)
  /\ UNCHANGED <<data, called, raised, arg, handlerVars, flightVars, extVars>>

NextSuite ==
  \/ CallMovingAverage
  \/ CallDetectBloom
  \/ CallAnalyzeTrends
  \/ CallDetectAnomalies
  \/ CallAnalyzeSeasonality
  \/ CallGeneratePredictions
  \/ CallGenerateRecommendations
  \/ Reinvoke

SpecSuite == InitSuite /\ [][NextSuite]_vars

\* ------------------------------------------- GET /api/vegetation/analysis
\* start_date and end_date name days of the first model year.
AnalysisDays == 1..MaxAnalysisDay
AnalysisQueries ==
  [lat : {ToString(n) : n \in Latitudes}, lon : {ToString(n) : n \in Longitudes},
   start_date : {ToString(1)}, end_date : {ToString(d) : d \in AnalysisDays \ {1}}]

\* new Date(startDate)
ParseDate(str) == CHOOSE d \in AnalysisDays : ToString(d) = str

\* `vegetation-analysis-${lat}-${lon}-${start_date}-${end_date}`
AnalysisKey(q) ==
  "vegetation-analysis-" \o q.lat \o "-" \o q.lon \o "-" \o q.start_date
    \o "-" \o q.end_date

\* null in the place of a payload object
NullPayload == [null |-> TRUE]

\* What performAdvancedVegetationAnalysis returns when nothing inside its try
\* block raises; confidence 0.89 in hundredths.
AnalysisResult(q, noise, k, now) ==
  LET vegetationData ==
        getMultiSourceVegetationData(ParseDate(q.start_date), ParseDate(q.end_date), noise)
  IN  [location |-> [lat |-> parseFloat(q.lat), lon |-> parseFloat(q.lon)],
       period |-> [start |-> q.start_date, end |-> q.end_date],
       analysis |-> [trends |-> analyzeTrends(vegetationData, k),
                     anomalies |-> detectAnomalies(vegetationData),
                     seasonality |-> analyzeSeasonality(vegetationData),
                     predictions |-> generatePredictions(vegetationData, now),
                     recommendations |-> generateRecommendations(vegetationData, k)],
       confidence |-> 89,
       methodology |-> "Multi-temporal analysis with enhanced simulation models"]

\* performAdvancedVegetationAnalysis: the result, or null from its catch block
\* when the data source or one of the analysis functions raises.
performAdvancedVegetationAnalysis(q) ==
  {NullPayload} \cup
  {AnalysisResult(q, noise, k, now) :
     noise \in [1..SourceDays(ParseDate(q.start_date), ParseDate(q.end_date)) -> NoiseLevels],
     k \in 0..(RandDen - 1), now \in Clock}

\* The handler, entry to response: like the phenology handler it awaits only
\* promises that are already resolved.  `if (!data)` takes a stored null for
\* a miss.  The handler's own catch block (status 500) is entered only if
\* cache.get, cache.set or res.json raise, which they do not here.
AnalysisRequest(q) ==
  /\ va.pc = "idle"
  /\ pc # "await"
  /\ LET cacheKey == AnalysisKey(q)
     IN  IF cacheKey \in DOMAIN cache /\ cache[cacheKey] # NullPayload
         THEN /\ va' = [pc |-> "done", failed |-> FALSE, key |-> cacheKey,
                        res |-> [status |-> 200, body |-> cache[cacheKey]]]
              /\ UNCHANGED cache
         ELSE \E result \in performAdvancedVegetationAnalysis(q) :
                /\ cache' = CacheSet(cache, cacheKey, result)
                /\ va' = [pc |-> "done", failed |-> result = NullPayload, key |-> cacheKey,
                          res |-> [status |-> 200, body |-> result]]
  /\ UNCHANGED <<pc, query, year, perYear, fetched, res, coreVars, flightVars, rs, cmr>>

AnalysisReturn ==
  /\ va.pc = "done"
  /\ va' = NoAnalysis
  /\ UNCHANGED <<handlerVars, coreVars, flightVars, rs, cmr>>

\* The phenology handler's catch block: the data source, the smoother or the
\* detector raised during a turn of the loop.
YearStepThrows ==
  /\ pc = "await"
  /\ pc' = "done"
  /\ res' = [status |-> 500, error |-> "Failed to compute phenology"]
  /\ UNCHANGED <<cache, query, year, perYear, fetched, coreVars, flightVars, extVars>>

FailureQueries ==
  [lat : {ToString(n) : n \in Latitudes}, lon : {ToString(n) : n \in Longitudes},
   start_year : {ToString(FirstYear)}, end_year : {ToString(FirstYear)},
   index_type : {""}]

NextFailure ==
  \/ \E q \in FailureQueries : Request(q) /\ UNCHANGED flightVars
  \/ YearStep /\ UNCHANGED flightVars
  \/ YearStepThrows
  \/ Return /\ UNCHANGED flightVars
  \/ Expire /\ UNCHANGED flightVars
  \/ \E q \in AnalysisQueries : AnalysisRequest(q)
  \/ AnalysisReturn

SpecFailure == Init /\ [][NextFailure]_vars

\* -------------------------------------- GET /api/vegetation/real/series
\* rs.pc is the await the handler is suspended at ("submit", "poll",
\* "download", "parse"), "idle" before a request and "done" once it has
\* returned; rs.polls counts the status requests issued, rs.reply is the
\* latest status reply, rs.sent lists the status codes of the responses sent.
MaxAttempts == 30      \* while (attempts < 30)

SeriesQueries ==
  [lat : {""} \cup {ToString(n) : n \in Latitudes},
   lon : {ToString(n) : n \in Longitudes},
   start_date : {ToString(1)}, end_date : {ToString(MaxAnalysisDay)}]

\* What /api/vegetation/real answers to the submission: a job_url, or none
\* ("" stands for an absent field), or a failure status; or the call raises.
Raise == [kind |-> "throw", status |-> 0, jobStatus |-> "", links |-> <<>>]
SubmitReplies ==
  {Raise} \cup
  [kind : {"reply"}, status : {200, 400}, job_url : {"", "https://harmony/jobs/1"}]

\* Hrefs of data links: "" is a link without href.
TifHrefs == {"https://data/a.tif", "https://data/b.TIFF"}
Hrefs == TifHrefs \cup {"", "https://data/c.json"}
LinkLists ==
  {<<>>} \cup {<<[href |-> h]>> : h \in Hrefs}
    \cup {<<[href |-> "https://data/c.json"], [href |-> h]>> : h \in TifHrefs \cup {""}}

\* What /api/harmony/results answers to a status request: a non-200 status,
\* or 200 with a job status ("" absent) and data links; or the call raises.
JobStatuses == {"", "accepted", "running", "successful", "failed", "canceled"}
PollReplies ==
  {Raise} \cup
  {[kind |-> "reply", status |-> 404, jobStatus |-> "", links |-> <<>>]} \cup
  [kind : {"reply"}, status : {200}, jobStatus : JobStatuses, links : LinkLists]

\* (l.href || '').toLowerCase().endsWith('.tif') || ... endsWith('.tiff')
EndsWithTif(href) == href \in TifHrefs

\* links.find(l => ...) || links[0]
DataLink(links) ==
  LET tifs == SelectSeq(links, LAMBDA l : EndsWithTif(l.href))
  IN  IF Len(tifs) > 0 THEN tifs[1] ELSE links[1]

\* return res.status(code).json(...)
Respond(r, code) == [r EXCEPT !.pc = "done", !.sent = Append(@, code)]

NextAttemptsOn200(attempts, reply) ==
  IF reply.kind = "reply" /\ reply.status = 200 THEN attempts + 1 ELSE attempts

\* attempts++ comes before the status request and its `continue`
NextAttempts(attempts, reply) == attempts + 1

IsFailureFailedOnly(status) == status = "failed"

\* status === 'failed' || status === 'canceled'
IsFailure(status) == status = "failed" \/ status = "canceled"

\* From the end of the loop to the download request.
AfterLoop(r) ==
  IF r.status # "successful" \/ Len(r.links) = 0 THEN Respond(r, 504)
  ELSE IF DataLink(r.links).href = "" THEN Respond(r, 502)
  ELSE [r EXCEPT !.pc = "download"]

\* The loop condition, met again after a turn that neither broke out of the
\* loop nor returned.
Continue(r) == IF r.attempts < MaxAttempts THEN r ELSE AfterLoop(r)

\* The handler from its entry to the submission; token tells whether
\* config.EDL_TOKEN is set.
SeriesRequest(q, token) ==
  /\ rs.pc = "idle"
  /\ rs' = IF q.lat = "" \/ q.lon = "" \/ q.start_date = "" \/ q.end_date = ""
           THEN Respond(rs, 400)
           ELSE IF ~token THEN Respond(rs, 400)
           ELSE [rs EXCEPT !.pc = "submit"]
  /\ UNCHANGED <<handlerVars, coreVars, flightVars, va, cmr>>

\* The submission has returned or raised.
SeriesSubmitted(reply) ==
  /\ rs.pc = "submit"
  /\ rs' = IF reply.kind = "throw" THEN Respond(rs, 500)
           ELSE IF reply.status # 200 \/ reply.job_url = "" THEN Respond(rs, 502)
           ELSE [rs EXCEPT !.pc = "poll", !.status = "running", !.attempts = 0,
                           !.links = <<>>]
  /\ UNCHANGED <<handlerVars, coreVars, flightVars, va, cmr>>

\* One turn of the polling loop: the timer fires, attempts is counted, the
\* status request is issued and returns or raises; then the handler runs on
\* to its next await or to its response.
SeriesPolled(reply) ==
  /\ rs.pc = "poll"
  /\ LET polled == [rs EXCEPT !.attempts = NextAttempts(@, reply),
                              !.polls = @ + 1, !.reply = reply]
         status == IF reply.jobStatus # "" THEN reply.jobStatus ELSE rs.status
         withStatus == [polled EXCEPT !.status = status]
     IN  rs' = IF reply.kind = "throw" THEN Respond(polled, 500)
               ELSE IF reply.status # 200 THEN Continue(polled)
               ELSE IF status = "successful"
               THEN AfterLoop([withStatus EXCEPT !.links = reply.links])
               ELSE IF IsFailure(status) THEN Respond(withStatus, 502)
               ELSE Continue(withStatus)
  /\ UNCHANGED <<handlerVars, coreVars, flightVars, va, cmr>>

\* fetch2 and arrayBuffer have returned or raised.
SeriesDownloaded(outcome) ==
  /\ rs.pc = "download"
  /\ rs' = CASE outcome = "throw" -> Respond(rs, 500)
             [] outcome = "not ok" -> Respond(rs, 502)
             [] outcome = "ok" -> [rs EXCEPT !.pc = "parse"]
  /\ UNCHANGED <<handlerVars, coreVars, flightVars, va, cmr>>

\* The GeoTIFF calls have returned or raised.
SeriesParsed(outcome) ==
  /\ rs.pc = "parse"
  /\ rs' = IF outcome = "throw" THEN Respond(rs, 500) ELSE Respond(rs, 200)
  /\ UNCHANGED <<handlerVars, coreVars, flightVars, va, cmr>>

\* The handler has returned; its locals are gone.
SeriesReturn ==
  /\ rs.pc = "done"
  /\ rs' = NoSeries
  /\ UNCHANGED <<handlerVars, coreVars, flightVars, va, cmr>>

NextSeries ==
  \/ \E q \in SeriesQueries, token \in BOOLEAN : SeriesRequest(q, token)
  \/ \E reply \in SubmitReplies : SeriesSubmitted(reply)
  \/ \E reply \in PollReplies : SeriesPolled(reply)
  \/ \E outcome \in {"throw", "not ok", "ok"} : SeriesDownloaded(outcome)
  \/ \E outcome \in {"throw", "ok"} : SeriesParsed(outcome)
  \/ SeriesReturn

\* Every upstream call returns or raises, and the timer fires: the handler is
\* resumed at each of its awaits.
SpecSeries == Init /\ [][NextSeries]_vars /\ WF_vars(NextSeries)

\* ------------------------------------------- getCmrCollectionConceptId
\* cmr.pc is "await" while a CMR query is out, "done" once the function has
\* returned; cmr.issued lists the parameters of the queries issued,
\* cmr.replies the replies received, cmr.caught tells that the catch block
\* ran, cmr.raised that the function let an exception out.
CmrParams ==
  <<{"short_name", "version", "provider"}, {"short_name", "version"}, {"short_name"}>>

Providers == {"LPDAAC_ECS", "ORNL_CLOUD"}
IdPrefixes == {"C1-", "C2-"}

\* An entry of feed.entry: an object with an id, an object without one
\* (id ""), or a JSON null.
NullEntry == [null |-> TRUE]
Entries ==
  {[id |-> "C1-LPDAAC_ECS"], [id |-> "C2-ORNL_CLOUD"], [id |-> ""], NullEntry}
EntryLists == {<<>>} \cup {<<e>> : e \in Entries} \cup {<<e, f>> : e, f \in Entries}

\* What CMR answers: status 200 with a list of entries, another status (with
\* or without entries in its body); or the request raises.
CmrReplies ==
  {[kind |-> "throw"]} \cup
  [kind : {"reply"}, status : {200}, entries : EntryLists] \cup
  [kind : {"reply"}, status : {500}, entries : {<<>>, <<[id |-> "C1-LPDAAC_ECS"]>>}]

\* (e.id || '').includes(sub)
Includes(id, sub) == \E prefix \in IdPrefixes : id = prefix \o sub

PreferredOfCall(n, provider) == provider

\* the provider whose entry the n-th query prefers
Preferred(n, provider) == IF n = 1 THEN provider ELSE "LPDAAC_ECS"

\* entry.find(e => (e.id || '').includes(preferred)) || entry[0]; the
\* callback raises a TypeError on a null it meets before a match
ChooseEntry(entries, preferred) ==
  LET stops == {i \in 1..Len(entries) :
                  entries[i] = NullEntry \/ Includes(entries[i].id, preferred)}
      first == CHOOSE i \in stops : \A j \in stops : i <= j
  IN  IF stops = {} THEN [raised |-> FALSE, entry |-> entries[1]]
      ELSE IF entries[first] = NullEntry THEN [raised |-> TRUE, entry |-> NullEntry]
      ELSE [raised |-> FALSE, entry |-> entries[first]]

\* entry?.id || null
IdOrNull(entry) == IF entry.id = "" THEN NullString ELSE entry.id

\* The function from its entry to its first query.
CmrCall(provider) ==
  /\ cmr.pc = "idle"
  /\ cmr' = [NoLookup EXCEPT !.pc = "await", !.provider = provider,
                             !.issued = <<CmrParams[1]>>]
  /\ UNCHANGED <<handlerVars, coreVars, flightVars, va, rs>>

\* A query has returned or raised: the function returns, or issues the next.
CmrReply(reply) ==
  /\ cmr.pc = "await"
  /\ LET n == Len(cmr.issued)
         got == [cmr EXCEPT !.replies = Append(@, reply)]
         Returns(r, result) == [r EXCEPT !.pc = "done", !.result = result]
         Caught(r) == [r EXCEPT !.pc = "done", !.result = NullString, !.caught = TRUE]
     IN  cmr' =
           IF reply.kind = "throw" THEN Caught(got)
           ELSE IF reply.status = 200 /\ Len(reply.entries) > 0
           THEN LET chosen == ChooseEntry(reply.entries, Preferred(n, cmr.provider))
                IN  IF chosen.raised THEN Caught(got)
                    ELSE Returns(got, IdOrNull(chosen.entry))
           ELSE IF n < Len(CmrParams)
           THEN [got EXCEPT !.issued = Append(@, CmrParams[n + 1])]
           ELSE Returns(got, NullString)
  /\ UNCHANGED <<handlerVars, coreVars, flightVars, va, rs>>

\* The caller has taken the result.
CmrReturn ==
  /\ cmr.pc = "done"
  /\ cmr' = NoLookup
  /\ UNCHANGED <<handlerVars, coreVars, flightVars, va, rs>>

NextCmr ==
  \/ \E provider \in Providers : CmrCall(provider)
  \/ \E reply \in CmrReplies : CmrReply(reply)
  \/ CmrReturn

SpecCmr == Init /\ [][NextCmr]_vars

\* ------------------------------------------------------------------ claims
\* The smoothed values the harness hands to detectBloom, element by element.
Smoothed == SubSeq(movingAverage(ValuesOf(data), 5), 1, Len(data))

BloomCalled == called = "detectBloom"

\* C1: detectBloom on an empty series never raises and returns exactly the
\* neutral BloomEvent (all dates, peakValue and durationDays null, confidence
\* 0.5); on every non-empty series, length 1 included, it returns a BloomEvent
\* without raising.
C1_EmptyIsNeutralNoRaise ==
  BloomCalled =>
    /\ ~raised
    /\ DOMAIN ret = {"onsetDate", "peakDate", "endDate", "peakValue",
                     "durationDays", "confidence"}
    /\ Len(data) = 0 =>
         /\ ret.onsetDate = Null /\ ret.peakDate = Null /\ ret.endDate = Null
         /\ ret.peakValue = Null /\ ret.durationDays = Null
         /\ 2 * ret.confidence = ConfScale

C1_Witness == BloomCalled /\ Len(data) = 0 /\ ~raised

\* C2 (as claimed): every BloomEvent returned by detectBloom has confidence
\* within [0.5, 0.95].
C2_ConfidenceInRange ==
  BloomCalled =>
    /\ 2 * ret.confidence >= ConfScale
    /\ 100 * ret.confidence <= 95 * ConfScale

\* C3 (as claimed): when onsetDate and endDate are both non-null, durationDays
\* is endDate - onsetDate in days and that difference is >= 0; when either is
\* null, durationDays is null.
C3_DurationIsDifference ==
  BloomCalled =>
    /\ (ret.onsetDate # Null /\ ret.endDate # Null) =>
         /\ ret.durationDays = ret.endDate - ret.onsetDate
         /\ ret.endDate - ret.onsetDate >= 0
    /\ (ret.onsetDate = Null \/ ret.endDate = Null) => ret.durationDays = Null

\* C3 (amended): when onsetDate and endDate are both non-null, durationDays is
\* endDate - onsetDate in days if the end is not before the onset and 0 if it
\* is (the detected onset can lie after the detected end); when either is
\* null, durationDays is null.
C3_DurationFlooredDifference ==
  BloomCalled =>
    /\ (ret.onsetDate # Null /\ ret.endDate # Null /\ ret.endDate >= ret.onsetDate)
         => ret.durationDays = ret.endDate - ret.onsetDate
    /\ (ret.onsetDate # Null /\ ret.endDate # Null /\ ret.endDate < ret.onsetDate)
         => ret.durationDays = 0
    /\ (ret.onsetDate = Null \/ ret.endDate = Null) => ret.durationDays = Null

C3_Witness ==
  /\ BloomCalled
  /\ ret.onsetDate # Null /\ ret.endDate # Null
  /\ ret.endDate < ret.onsetDate
  /\ ret.durationDays = 0

\* A single hump: the smoothed values start below the adaptive threshold, rise
\* to one maximum and fall back below the threshold until the end.
SingleHump(values) ==
  LET n == Len(values)
      t == Threshold(values)
  IN  /\ n >= 1
      /\ Below(At(values, 0), t)
      /\ Below(At(values, n - 1), t)
      /\ \E p \in 0..(n - 1) :
           /\ \A j \in 0..(n - 1) : j # p => At(values, j) < At(values, p)
           /\ \A j \in 0..(p - 1) : At(values, j) <= At(values, j + 1)
           /\ \A j \in p..(n - 2) : At(values, j) >= At(values, j + 1)

\* The index of the sample holding the maximum of a single hump.
HumpTop(values) ==
  CHOOSE p \in 0..(Len(values) - 1) :
    \A j \in 0..(Len(values) - 1) : At(values, j) <= At(values, p)

\* C4 (as claimed): on a single-hump series detectBloom resolves all three
\* markers with onsetIndex < peakIndex < endIndex, peakDate is the date of the
\* sample holding the maximum, and durationDays > 0.
C4_SingleHumpAllResolved ==
  (BloomCalled /\ SingleHump(Smoothed)) =>
    /\ OnsetIdx(Smoothed) >= 0 /\ EndIdx(Smoothed) >= 0
    /\ OnsetIdx(Smoothed) < PeakIdx(Smoothed)
    /\ PeakIdx(Smoothed) < EndIdx(Smoothed)
    /\ ret.peakDate = At(data, HumpTop(Smoothed)).date
    /\ ret.durationDays # Null /\ ret.durationDays > 0

\* C4 (amended): on a single-hump series detectBloom resolves the onset and
\* the peak with onsetIndex <= peakIndex, strictly below it exactly when the
\* sample just before the maximum is at or above the threshold; peakDate is
\* the date of the sample holding the maximum; the end is resolved exactly
\* when the sample just after the maximum is at or above the threshold, and
\* then onsetIndex <= peakIndex < endIndex and durationDays > 0.
C4_SingleHumpPartlyResolved ==
  (BloomCalled /\ SingleHump(Smoothed)) =>
    LET v == Smoothed
        t == Threshold(v)
        top == HumpTop(v)
        on == OnsetIdx(v)
        en == EndIdx(v)
    IN  /\ on >= 1 /\ on <= PeakIdx(v)
        /\ PeakIdx(v) = top
        /\ (on < top) <=> ~Below(At(v, top - 1), t)
        /\ ret.onsetDate = At(data, on).date
        /\ ret.peakDate = At(data, top).date
        /\ (en >= 0) <=> ~Below(At(v, top + 1), t)
        /\ (en >= 0) =>
             /\ top < en
             /\ ret.endDate = At(data, en).date
             /\ ret.durationDays # Null /\ ret.durationDays > 0
        /\ (en < 0) => ret.endDate = Null /\ ret.durationDays = Null

C4_Witness ==
  /\ BloomCalled /\ SingleHump(Smoothed)
  /\ OnsetIdx(Smoothed) < PeakIdx(Smoothed)
  /\ PeakIdx(Smoothed) < EndIdx(Smoothed)
  /\ ret.durationDays > 0

\* The ordinary-least-squares slope of values against x = 0..n-1, as num/den:
\* (n*Sxy - Sx*Sy) / (n*Sxx - Sx*Sx).
OlsSlope(values) ==
  LET n == Len(values)
      Sx == SumSeq([k \in 1..n |-> k - 1])
      Sy == SumSeq(values)
      Sxy == SumSeq([k \in 1..n |-> (k - 1) * values[k]])
      Sxx == SumSeq([k \in 1..n |-> (k - 1) * (k - 1)])
  IN  [num |-> n * Sxy - Sx * Sy, den |-> n * Sxx - Sx * Sx]

TrendsCalled == called = "analyzeTrends"

\* C5 (as claimed): for every series of length n >= 2 the slope analyzeTrends
\* uses is the ordinary-least-squares slope of the values against x = 0..n-1:
\* direction is Increasing exactly when that slope is > 0 and magnitude is its
\* absolute value to 4 decimals; the series [0,1,2,3,4,5] is reported
\* Increasing, magnitude 1.0000, Significant.
C5_SlopeIsLeastSquares ==
  (TrendsCalled /\ Len(data) >= 2) =>
    LET ols == OlsSlope(ValuesOf(data))
    IN  /\ ols.den > 0
        /\ (ret.direction = "Increasing") <=> (ols.num > 0)
        /\ ret.magnitude = ToFixed4(Abs(ols.num), ols.den)
        /\ ValuesOf(data) = <<0, 1, 2, 3, 4, 5>> =>
             /\ ret.direction = "Increasing"
             /\ ret.magnitude = 10000
             /\ ret.significance = "Significant"

AnomaliesCalled == called = "detectAnomalies"

\* The indices (1-based) of the samples whose value differs from the mean of
\* all values by strictly more than twice the population standard deviation,
\* compared as squares over the common denominator n^2:
\* (n*v - S)^2 > 4 * n^2 * variance, n^2 * variance = sum((n*v_j - S)^2) / n.
TwoSigmaOutliers(series) ==
  LET n == Len(series)
      S == SumSeq(ValuesOf(series))
      dev(k) == n * series[k].value - S
      sumSq == SumSeq([j \in 1..n |-> dev(j) * dev(j)])
  IN  {k \in 1..n : n * dev(k) * dev(k) > 4 * sumSq}

\* C6: detectAnomalies flags exactly the samples more than two population
\* standard deviations from the mean: count is their number, dates lists their
\* dates in input order, severity is Moderate iff count > 0; a zero-variance
\* series yields count 0 and the none severity.
C6_TwoSigmaOutliersFlagged ==
  AnomaliesCalled =>
    LET out == TwoSigmaOutliers(data)
    IN  /\ ~raised
        /\ ret.count = Cardinality(out)
        /\ Len(ret.dates) = ret.count
        /\ {ret.dates[k] : k \in 1..Len(ret.dates)} = {data[k].date : k \in out}
        /\ \A k \in 1..(Len(ret.dates) - 1) : ret.dates[k] < ret.dates[k + 1]
        /\ (ret.severity = "Moderate") <=> (ret.count > 0)
        /\ (ret.count = 0) => ret.severity = "None detected"
        /\ (\A i, j \in 1..Len(data) : data[i].value = data[j].value) =>
             ret.count = 0 /\ ret.severity = "None detected"

C6_Witness ==
  /\ AnomaliesCalled
  /\ ret.count > 0
  /\ ret.count < Len(data)
  /\ ret.severity = "Moderate"

\* A 200 response of /api/phenology has been sent and the exchange is still open.
Sent200 == pc = "done" /\ res.status = 200

\* The payload of the response was computed by this request, not read from the cache.
ComputedNow == Sent200 /\ year # Null

\* The records of a years list that have a peak, and each one's peak day of
\* year counted from day 0 of the record's own year.
PeakYears(ys) == {k \in 1..Len(ys) : ys[k].peak_date # Null}
PeakDay(ys, k) == ys[k].peak_date - DayNumber(ys[k].year, 0)

\* C7: medianPeakDayOfYear is the element at index floor(count/2) of the
\* ascending-sorted peak days of year of the years that have a peak (exactly
\* floor(count/2) or fewer of them lie below it and more than floor(count/2)
\* lie at or below it), null when no year has a peak; peak days 100, 200, 300
\* in any order give 200.
C7_MedianIsElementAtHalfCount ==
  /\ Sent200 =>
       LET ys == res.body.years
           P == PeakYears(ys)
           count == Cardinality(P)
           m == res.body.summary.median_peak_day_of_year
       IN  /\ (count = 0) => m = Null
           /\ (count > 0) =>
                /\ \E k \in P : PeakDay(ys, k) = m
                /\ Cardinality({k \in P : PeakDay(ys, k) < m}) <= count \div 2
                /\ Cardinality({k \in P : PeakDay(ys, k) <= m}) > count \div 2
  /\ \A s \in {<<100, 200, 300>>, <<100, 300, 200>>, <<200, 100, 300>>,
                <<200, 300, 100>>, <<300, 100, 200>>, <<300, 200, 100>>} :
       MedianPeakDoy(s) = 200

C7_Witness ==
  /\ ComputedNow
  /\ Len(res.body.years) = 2
  /\ PeakYears(res.body.years) = {1, 2}
  /\ PeakDay(res.body.years, 1) > PeakDay(res.body.years, 2)
  /\ res.body.summary.median_peak_day_of_year = PeakDay(res.body.years, 1)

EvenPeakCount == Sent200 /\ Cardinality(PeakYears(res.body.years)) % 2 = 0
                         /\ PeakYears(res.body.years) # {}

\* C8 (as claimed): with an even number of years with a peak,
\* medianPeakDayOfYear is the lower of the two middle elements of the sorted
\* peak days of year: fewer than count/2 of them lie below it and at least
\* count/2 lie at or below it.
C8_EvenCountLowerMiddle ==
  EvenPeakCount =>
    LET ys == res.body.years
        P == PeakYears(ys)
        half == Cardinality(P) \div 2
        m == res.body.summary.median_peak_day_of_year
    IN  /\ \E k \in P : PeakDay(ys, k) = m
        /\ Cardinality({k \in P : PeakDay(ys, k) < m}) < half
        /\ Cardinality({k \in P : PeakDay(ys, k) <= m}) >= half

\* C8 (amended): with an even number of years with a peak,
\* medianPeakDayOfYear is the upper of the two middle elements of the sorted
\* peak days of year (fewer than count/2 of them lie above it and at least
\* count/2 lie at or above it), never their average.
C8_EvenCountUpperMiddle ==
  EvenPeakCount =>
    LET ys == res.body.years
        P == PeakYears(ys)
        half == Cardinality(P) \div 2
        m == res.body.summary.median_peak_day_of_year
    IN  /\ \E k \in P : PeakDay(ys, k) = m
        /\ Cardinality({k \in P : PeakDay(ys, k) > m}) < half
        /\ Cardinality({k \in P : PeakDay(ys, k) >= m}) >= half

C8_Witness ==
  /\ EvenPeakCount
  /\ ComputedNow
  /\ \E k \in PeakYears(res.body.years) :
       PeakDay(res.body.years, k) < res.body.summary.median_peak_day_of_year

\* The request being handled names an inverted year range.
InvertedRange ==
  /\ pc = "done"
  /\ query.lat # "" /\ query.lon # ""
  /\ \E sy, ey \in Years :
       /\ query.start_year = ToString(sy)
       /\ query.end_year = ToString(ey)
       /\ ey < sy

\* C9 (as claimed): a phenology request with an inverted year range produces
\* no error: it yields a summary with an empty years list, numYears 0,
\* yearsWithBloom 0 and a null medianPeakDayOfYear.
C9_InvertedRangeEmptySummary ==
  InvertedRange =>
    /\ res.status = 200
    /\ res.body.years = <<>>
    /\ res.body.summary.num_years = 0
    /\ res.body.summary.years_with_bloom = 0
    /\ res.body.summary.median_peak_day_of_year = Null

\* C9 (amended): a phenology request with an inverted year range is answered
\* with status 400 and the error 'end_year must be >= start_year'; no year is
\* fetched and no summary is computed or cached for it.
C9_InvertedRangeRejected ==
  InvertedRange =>
    /\ res.status = 400
    /\ res.error = "end_year must be >= start_year"
    /\ perYear = <<>> /\ fetched = <<>>
    /\ CacheKey(query) \notin DOMAIN cache

C9_Witness == InvertedRange /\ res.status = 400

\* C10: for a summary computed over [startYear, endYear], endYear >= startYear:
\* the years list holds one record per calendar year of the range in ascending
\* order, each built from that year's series smoothed with window 5; numYears
\* is endYear - startYear + 1; yearsWithBloom is the number of records with a
\* non-null peakDate, between 0 and numYears.
C10_OneRecordPerYear ==
  (ComputedNow /\ parseInt(query.start_year) # NaN /\ parseInt(query.end_year) # NaN) =>
    LET sy == parseInt(query.start_year)
        ey == parseInt(query.end_year)
        ys == res.body.years
        sm == res.body.summary
    IN  /\ sy <= ey
        /\ Len(ys) = ey - sy + 1
        /\ Len(fetched) = Len(ys)
        /\ \A k \in 1..Len(ys) :
             LET y == sy + (k - 1)
                 d == detectBloom(fetched[k], movingAverage(ValuesOf(fetched[k]), 5))
             IN  /\ ys[k].year = y
                 /\ \A j \in 1..Len(fetched[k]) :
                      /\ fetched[k][j].date >= DayNumber(y, 1)
                      /\ fetched[k][j].date <= DayNumber(y, DaysPerYear)
                 /\ ys[k].onset_date = d.onsetDate
                 /\ ys[k].peak_date = d.peakDate
                 /\ ys[k].end_date = d.endDate
                 /\ ys[k].peak_value = d.peakValue
                 /\ ys[k].duration_days = d.durationDays
                 /\ ys[k].confidence = d.confidence
        /\ sm.num_years = ey - sy + 1
        /\ sm.years_with_bloom = Cardinality({k \in 1..Len(ys) : ys[k].peak_date # Null})
        /\ 0 <= sm.years_with_bloom /\ sm.years_with_bloom <= sm.num_years

C10_Witness ==
  /\ ComputedNow
  /\ parseInt(query.end_year) # NaN
  /\ parseInt(query.end_year) > parseInt(query.start_year)
  /\ res.body.summary.num_years = 2
  /\ res.body.summary.years_with_bloom = 2
  /\ \E k \in 1..2 : res.body.years[k].onset_date # Null

PredictionsCalled == called = "generatePredictions"

\* C11: generatePredictions on a series with fewer than 30 samples (0 and 29
\* included) returns an empty predictions list with overall confidence Low; on
\* a series with 30 or more samples it returns a non-empty list (one
\* prediction per day of the 30-day horizon) with overall confidence Medium.
C11_ThirtySamplesNeeded ==
  PredictionsCalled =>
    /\ ~raised
    /\ Len(data) < 30 => ret.predictions = <<>> /\ ret.confidence = "Low"
    /\ Len(data) >= 30 =>
         /\ ret.predictions # <<>>
         /\ Len(ret.predictions) = 30
         /\ ret.confidence = "Medium"

C11_Witness ==
  /\ PredictionsCalled
  /\ Len(data) = 30
  /\ ret.predictions # <<>>
  /\ ret.confidence = "Medium"

\* C12: every predicted value surfaced by generatePredictions lies in [0, 1]
\* (0..1000 thousandths), whatever the values of the series and whatever the
\* sign and size of the slope.
C12_PredictedValueInUnitRange ==
  PredictionsCalled =>
    \A i \in 1..Len(ret.predictions) :
      /\ ret.predictions[i].predicted_value >= 0
      /\ ret.predictions[i].predicted_value <= 1000

\* A series with a value outside [0, 1] whose extrapolation leaves [0, 1] on
\* both sides of the horizon's values, so that the clamp has acted.
C12_Witness ==
  /\ PredictionsCalled
  /\ Len(data) >= 30
  /\ \E k \in 1..Len(data) : data[k].value > 1
  /\ \E k \in 1..Len(data) : data[k].value < 0
  /\ LET recent == RecentValues(data)
         trend == calculateLinearTrend(recent)
         x == PredictedValueUnclamped(At(recent, Len(recent) - 1), trend, 30)
     IN  /\ trend.num > 0
         /\ x.num > x.den
         /\ ret.predictions[30].predicted_value = 1000

SeasonalityCalled == called = "analyzeSeasonality"

\* The samples (1-based indices) of a series that fall in calendar month m,
\* whatever their year, and the sum of their values.
SamplesOfMonth(series, m) == {k \in 1..Len(series) : getMonth(series[k].date) = m}

RECURSIVE SumValuesAt(_, _)
SumValuesAt(series, S) ==
  IF S = {} THEN 0
  ELSE LET k == CHOOSE x \in S : TRUE
       IN  series[k].value + SumValuesAt(series, S \ {k})

\* C13: analyzeSeasonality buckets every sample by calendar month regardless
\* of year; the average it reports for each of the 12 months is the mean of
\* that month's samples, 0 for a month without samples; peak_month and
\* trough_month name the first month attaining the maximum and the minimum of
\* the 12 averages; when all January samples are 1 and all other samples 0,
\* the peak month is January, the January average 1 and every other average 0.
C13_MonthlyAveragesAndExtremes ==
  SeasonalityCalled =>
    LET avg == ret.monthly_patterns
        months == 0..11
    IN  /\ ~raised
        /\ Len(avg) = 12
        /\ \A m \in months :
             LET S == SamplesOfMonth(data, m)
             IN  /\ S # {} => At(avg, m).num * Cardinality(S)
                                = SumValuesAt(data, S) * At(avg, m).den
                 /\ S = {} => At(avg, m).num = 0
                 /\ At(avg, m).den > 0
        /\ \E m \in months :
             /\ ret.peak_month = MonthNames[m + 1]
             /\ \A j \in months : ~RatLess(At(avg, m), At(avg, j))
             /\ \A j \in 0..(m - 1) : RatLess(At(avg, j), At(avg, m))
        /\ \E m \in months :
             /\ ret.trough_month = MonthNames[m + 1]
             /\ \A j \in months : ~RatLess(At(avg, j), At(avg, m))
             /\ \A j \in 0..(m - 1) : RatLess(At(avg, m), At(avg, j))
        /\ ( /\ SamplesOfMonth(data, 0) # {}
             /\ \A k \in 1..Len(data) :
                  data[k].value = IF getMonth(data[k].date) = 0 THEN 1 ELSE 0 )
           => /\ ret.peak_month = "January"
              /\ At(avg, 0).num = At(avg, 0).den
              /\ \A m \in 1..11 : At(avg, m).num = 0

\* January samples of two different years at 1, samples of other months at 0.
C13_Witness ==
  /\ SeasonalityCalled
  /\ \E i, j \in SamplesOfMonth(data, 0) :
       getFullYear(data[i].date) # getFullYear(data[j].date)
  /\ \E k \in 1..Len(data) : getMonth(data[k].date) # 0
  /\ \A k \in 1..Len(data) :
       data[k].value = IF getMonth(data[k].date) = 0 THEN 1 ELSE 0
  /\ ret.peak_month = "January"
  /\ ret.trough_month = "February"

\* A result with the prediction dates left out.
WithoutDates(f, r) ==
  IF f = "generatePredictions"
  THEN [predictions |->
          [i \in 1..Len(r.predictions) |->
             [predicted_value |-> r.predictions[i].predicted_value,
              confidence |-> r.predictions[i].confidence]],
        confidence |-> r.confidence]
  ELSE r

\* C14 (as claimed): a second invocation of movingAverage, detectBloom,
\* analyzeTrends, detectAnomalies, analyzeSeasonality, generatePredictions or
\* generateRecommendations on the same input returns a result identical in
\* every field to the first, prediction dates excepted.
C14_SameInputSameResult ==
  [][(called # "none" /\ called' = called /\ data' = data /\ arg' = arg)
       => WithoutDates(called, ret') = WithoutDates(called, ret)]_vars

\* C15: analyzeTrends on a series of length 0 or 1 returns the insufficient-
\* data result with confidence 0 and neither direction nor magnitude; for
\* every length n >= 2, and for the 10-value window generatePredictions uses,
\* the slope denominator n*sum(i^2) - (sum(i))^2 is non-zero, so the slope is
\* a finite number.
C15_InsufficientDataOrNonZeroDenominator ==
  /\ (TrendsCalled /\ Len(data) < 2) =>
       /\ ~raised
       /\ DOMAIN ret = {"trend", "confidence"}
       /\ ret.trend = "Insufficient data"
       /\ ret.confidence = 0
  /\ (TrendsCalled /\ Len(data) >= 2) =>
       LET n == Len(data)
           idx == [k \in 1..n |-> k - 1]
           sq == [k \in 1..n |-> (k - 1) * (k - 1)]
       IN  /\ calculateLinearTrend(ValuesOf(data)).den
              = n * SumSeq(sq) - SumSeq(idx) * SumSeq(idx)
           /\ calculateLinearTrend(ValuesOf(data)).den # 0
           /\ {"direction", "magnitude"} \subseteq DOMAIN ret
  /\ (PredictionsCalled /\ Len(data) >= 30) =>
       /\ Len(RecentValues(data)) = 10
       /\ calculateLinearTrend(RecentValues(data)).den = 10 * 285 - 45 * 45
       /\ calculateLinearTrend(RecentValues(data)).den # 0

C15_Witness ==
  /\ TrendsCalled
  /\ Len(data) = 1
  /\ ret.trend = "Insufficient data"
  /\ ret.confidence = 0

\* The location, year range and index type a request asks for.
Asked(q) ==
  [lat |-> parseFloat(q.lat), lon |-> parseFloat(q.lon),
   sy |-> parseInt(q.start_year), ey |-> parseInt(q.end_year),
   index_type |-> IndexType(q)]

\* C16 (as claimed): a payload answered by /api/phenology, read from the cache
\* or not, is one computed for the location (parsed lat, lon), the year range
\* and the index type of the request it answers; two requests that differ in
\* location, range or index type never map to the same cache key.
C16_CachedPayloadMatchesRequest ==
  Sent200 =>
    /\ res.body.location = [lat |-> Asked(query).lat, lon |-> Asked(query).lon]
    /\ res.body.index_type = Asked(query).index_type
    /\ \A k \in 1..Len(res.body.years) :
         res.body.years[k].year = Asked(query).sy + (k - 1)

\* C17 (as claimed): the series the sample source returns for the request
\* year-01-01 .. year-12-31 holds one sample per calendar day from the first
\* day through the last day inclusive, dates strictly increasing without
\* duplicates.
C17_SourceCoversWholeRange ==
  ComputedNow =>
    \A k \in 1..Len(fetched) :
      LET series == fetched[k]
          y == res.body.years[k].year
      IN  /\ Len(series) = DaysPerYear
          /\ \A d \in DayNumber(y, 1)..DayNumber(y, DaysPerYear) :
               \E j \in 1..Len(series) : series[j].date = d
          /\ \A j \in 1..(Len(series) - 1) : series[j].date < series[j + 1].date

MovingCalled == called = "movingAverage"

\* The valid indices of the window of half-width half around index i.
WindowIndices(n, i, half) == {j \in 0..(n - 1) : i - half <= j /\ j <= i + half}

RECURSIVE SumAt(_, _)
SumAt(values, S) ==
  IF S = {} THEN 0
  ELSE LET j == CHOOSE x \in S : TRUE
       IN  At(values, j) + SumAt(values, S \ {j})

\* C18: movingAverage(values, w) returns a sequence of the length of values
\* whose element i is the mean of values[j] over the valid indices j with
\* i - floor(w/2) <= j <= i + floor(w/2), the window truncated at the
\* boundaries and never padded; an empty input gives an empty output and a
\* constant series of value v comes back as v at every index.
C18_TruncatedWindowMean ==
  MovingCalled =>
    LET values == ValuesOf(data)
        n == Len(values)
        half == arg \div 2
    IN  /\ ~raised
        /\ Len(ret) = n
        /\ \A i \in 0..(n - 1) :
             LET J == WindowIndices(n, i, half)
             IN  At(ret, i) * Cardinality(J) = SmoothScale * SumAt(values, J)
        /\ n = 0 => ret = <<>>
        /\ (\A i, j \in 1..n : values[i] = values[j]) =>
             \A i \in 1..n : ret[i] = SmoothScale * values[i]

\* Window 5 on a long series that is not constant: full windows inside,
\* truncated ones at both ends, and a mean that is not a whole number.
C18_Witness ==
  /\ MovingCalled
  /\ arg = 5
  /\ Len(data) >= 29
  /\ Cardinality(WindowIndices(Len(data), 0, 2)) = 3
  /\ Cardinality(WindowIndices(Len(data), 2, 2)) = 5
  /\ \E i \in 1..Len(ret) : ret[i] % SmoothScale # 0
  /\ ret[Len(ret)] # SmoothScale * data[Len(data)].value

\* The falling crossings after the peak: the indices i in peakIndex+1 .. n-2
\* with smoothed[i+1] < threshold <= smoothed[i].
FallingCrossings(values) ==
  LET t == Threshold(values)
      peak == PeakIdx(values)
  IN  {i \in (peak + 1)..(Len(values) - 2) :
         Below(At(values, i + 1), t) /\ ~Below(At(values, i), t)}

\* The first falling crossing met when scanning downwards from n-2.
LastFallingCrossing(values) ==
  LET F == FallingCrossings(values)
  IN  CHOOSE i \in F : \A j \in F : j <= i

\* C19 (as claimed): endDate is the date of the sample at index i, the first
\* index met scanning from n-2 down to peakIndex+1 with smoothed[i+1] <
\* threshold <= smoothed[i] (the last sample still at or above the
\* threshold); endDate is null when no such i exists.
C19_EndDateAtLastAbove ==
  (BloomCalled /\ Len(data) > 0) =>
    LET v == Smoothed
    IN  IF FallingCrossings(v) # {}
        THEN ret.endDate = At(data, LastFallingCrossing(v)).date
        ELSE ret.endDate = Null

\* C19 (amended): endDate is the date of the sample at index i + 1, where i
\* is the first index met scanning from n-2 down to peakIndex+1 with
\* smoothed[i+1] < threshold <= smoothed[i] (the first sample below the
\* threshold after the last one at or above it); endDate is null when no such
\* i exists.
C19_EndDateAtFirstBelow ==
  (BloomCalled /\ Len(data) > 0) =>
    LET v == Smoothed
        F == FallingCrossings(v)
        i == LastFallingCrossing(v)
    IN  IF F # {}
        THEN /\ ret.endDate = At(data, i + 1).date
             /\ Below(At(v, i + 1), Threshold(v))
        ELSE ret.endDate = Null

\* Two falling crossings after the peak: the later one gives the end.
C19_Witness ==
  /\ BloomCalled
  /\ Cardinality(FallingCrossings(Smoothed)) >= 2
  /\ ret.endDate = At(data, LastFallingCrossing(Smoothed) + 1).date

\* The element of rank r (0-based) of the values sorted ascending: at most r
\* values lie below it and more than r lie at or below it.
ElementOfRank(values, r) ==
  CHOOSE x \in {values[k] : k \in 1..Len(values)} :
    /\ Cardinality({k \in 1..Len(values) : values[k] < x}) <= r
    /\ Cardinality({k \in 1..Len(values) : values[k] <= x}) > r

\* The rising crossings: the indices i >= 1 with smoothed[i-1] < t <= smoothed[i],
\* t in units of 1/(ThrScale * SmoothScale).
RisingCrossings(values, t) ==
  {i \in 1..(Len(values) - 1) :
     ThrScale * At(values, i - 1) < t /\ t <= ThrScale * At(values, i)}

\* C20: the threshold of detectBloom is p10 + 0.4*(p90 - p10) with p10 and p90
\* the elements of rank floor(0.10*(n-1)) and floor(0.90*(n-1)) of the
\* ascending-sorted smoothed values, not interpolated; onsetDate is the date
\* of the smallest index i >= 1 with smoothed[i-1] < threshold <= smoothed[i],
\* null when there is none.
C20_ThresholdAndFirstRisingCrossing ==
  (BloomCalled /\ Len(data) > 0) =>
    LET v == Smoothed
        n == Len(v)
        p10 == ElementOfRank(v, (n - 1) \div 10)
        p90 == ElementOfRank(v, (9 * (n - 1)) \div 10)
        t == 5 * p10 + 2 * (p90 - p10)
        R == RisingCrossings(v, t)
        onsetIdx == OnsetIdx(v)
    IN  /\ P10(v) = p10 /\ P90(v) = p90
        /\ Threshold(v) = t
        /\ R # {} =>
             /\ onsetIdx \in R
             /\ \A i \in R : onsetIdx <= i
             /\ ret.onsetDate = At(data, onsetIdx).date
        /\ R = {} => onsetIdx = -1 /\ ret.onsetDate = Null

\* A series that starts at or above the threshold, falls below it and never
\* crosses it upward again: no onset.
C20_Witness ==
  /\ BloomCalled
  /\ Len(data) >= 3
  /\ ~Below(At(Smoothed, 0), Threshold(Smoothed))
  /\ Below(At(Smoothed, Len(data) - 1), Threshold(Smoothed))
  /\ P10(Smoothed) < P90(Smoothed)
  /\ ret.onsetDate = Null

\* The smallest index at which a sequence attains its maximum.
FirstMaxIndex(values) ==
  CHOOSE p \in 0..(Len(values) - 1) :
    /\ \A j \in 0..(Len(values) - 1) : At(values, j) <= At(values, p)
    /\ \A j \in 0..(p - 1) : At(values, j) < At(values, p)

\* C21: the peak index of detectBloom is the smallest index at which the
\* smoothed series attains its maximum, peakDate is the date of the original
\* sample at that index, and peakValue is that maximum smoothed value, not the
\* raw value.
C21_PeakIsFirstMaximum ==
  (BloomCalled /\ Len(data) > 0) =>
    LET v == Smoothed
        p == FirstMaxIndex(v)
    IN  /\ PeakIdx(v) = p
        /\ ret.peakDate = At(data, p).date
        /\ ret.peakValue = At(v, p)
        /\ \A j \in 0..(Len(v) - 1) : At(v, j) <= ret.peakValue

\* The maximum is attained at two indices, and the smoothed value at the peak
\* differs from the raw value there.
C21_Witness ==
  /\ BloomCalled
  /\ Len(data) > 0
  /\ LET v == Smoothed
         p == FirstMaxIndex(v)
     IN  /\ \E j \in (p + 1)..(Len(v) - 1) : At(v, j) = At(v, p)
         /\ ret.peakDate = At(data, p).date
         /\ ret.peakValue = At(v, p)
         /\ ret.peakValue # SmoothScale * At(data, p).value

\* C22 (as claimed): for every series of length >= 2, analyzeTrends reports
\* Significant exactly when the absolute value of the slope it computed
\* exceeds 0.01, whatever the slope's sign, and Not significant otherwise.
C22_SignificantByMagnitude ==
  (TrendsCalled /\ Len(data) >= 2) =>
    LET slope == calculateLinearTrend(ValuesOf(data))
    IN  /\ (ret.significance = "Significant") <=> (100 * Abs(slope.num) > slope.den)
        /\ (ret.significance = "Not significant") <=> ~(100 * Abs(slope.num) > slope.den)

\* clamp(0, 1, lastValue + slope * i) to three decimals, as a count of 1/1000,
\* for a slope num/den with den > 0.
ClampedExtrapolation(lastValue, slope, i) ==
  LET x == lastValue * slope.den + slope.num * i
      c == IF x < 0 THEN 0 ELSE IF x > slope.den THEN slope.den ELSE x
  IN  (2 * 1000 * c + slope.den) \div (2 * slope.den)

\* C23 (as claimed): for every series of length n >= 30, generatePredictions
\* returns exactly 30 predictions whose i-th value is clamp(0, 1, lastValue +
\* slope*i) with lastValue the final observed value and slope the ordinary-
\* least-squares slope of the last 10 values against x = 0..9; so when that
\* slope is not negative the predictions are non-decreasing.
C23_ExtrapolatesLeastSquaresSlope ==
  (PredictionsCalled /\ Len(data) >= 30) =>
    LET n == Len(data)
        last10 == [k \in 1..10 |-> data[n - 10 + k].value]
        slope == OlsSlope(last10)
        lastValue == data[n].value
    IN  /\ Len(ret.predictions) = 30
        /\ \A i \in 1..30 :
             ret.predictions[i].predicted_value = ClampedExtrapolation(lastValue, slope, i)
        /\ slope.num >= 0 =>
             \A i \in 1..29 :
               ret.predictions[i].predicted_value <= ret.predictions[i + 1].predicted_value

RecommendationsCalled == called = "generateRecommendations"

LowAdvisory == "Low vegetation detected - consider environmental factors"
DeclineAdvisory == "Declining trend observed - investigate causes"
LimitedAdvisory == "Limited data available - continue monitoring"
WeatherAdvisory == "Monitor weather conditions for correlation"
SeasonalAdvisory == "Consider seasonal variations in analysis"

\* How often a message occurs in a list, and whether a precedes b wherever
\* both occur.
Occurrences(list, msg) == Cardinality({i \in 1..Len(list) : list[i] = msg})
Precedes(list, a, b) ==
  \A i, j \in 1..Len(list) : (list[i] = a /\ list[j] = b) => i < j

\* What C24 states apart from the rule of the low-vegetation advisory.
RecommendationsInOrder(list) ==
  LET trend == analyzeTrends(data, 0)
      decreasing == "direction" \in DOMAIN trend /\ trend.direction = "Decreasing"
  IN  /\ (Occurrences(list, DeclineAdvisory) > 0) <=> decreasing
      /\ (Occurrences(list, LimitedAdvisory) > 0) <=> (Len(data) < 30)
      /\ Len(list) >= 2 /\ Len(list) <= 5
      /\ list[Len(list) - 1] = WeatherAdvisory
      /\ list[Len(list)] = SeasonalAdvisory
      /\ \A msg \in {LowAdvisory, DeclineAdvisory, LimitedAdvisory,
                       WeatherAdvisory, SeasonalAdvisory} : Occurrences(list, msg) <= 1
      /\ \A i \in 1..Len(list) :
           list[i] \in {LowAdvisory, DeclineAdvisory, LimitedAdvisory,
                        WeatherAdvisory, SeasonalAdvisory}
      /\ Precedes(list, LowAdvisory, DeclineAdvisory)
      /\ Precedes(list, LowAdvisory, LimitedAdvisory)
      /\ Precedes(list, DeclineAdvisory, LimitedAdvisory)
      /\ Precedes(list, LimitedAdvisory, WeatherAdvisory)

\* C24 (as claimed): generateRecommendations returns, in this order, the
\* low-vegetation advisory iff the last sample's value is < 0.3, the decline
\* advisory iff analyzeTrends reports Decreasing, the limited-data advisory
\* iff the series has fewer than 30 samples, and then always the two fixed
\* advisories; between 2 and 5 entries, no message twice.
C24_LowAdvisoryByLastSample ==
  RecommendationsCalled =>
    /\ (Occurrences(ret, LowAdvisory) > 0)
         <=> (Len(data) > 0 /\ 10 * data[Len(data)].value < 3)
    /\ RecommendationsInOrder(ret)

\* C24 (amended): as claimed, except that the low-vegetation advisory is
\* returned iff the series is empty or its last sample's value is < 0.3: an
\* empty series has no last sample and is given the current value 0.
C24_LowAdvisoryByLastSampleOrEmpty ==
  RecommendationsCalled =>
    /\ (Occurrences(ret, LowAdvisory) > 0)
         <=> (Len(data) = 0 \/ 10 * data[Len(data)].value < 3)
    /\ RecommendationsInOrder(ret)

C24_Witness ==
  /\ RecommendationsCalled
  /\ Len(data) = 0
  /\ ret = <<LowAdvisory, LimitedAdvisory, WeatherAdvisory, SeasonalAdvisory>>

\* A 200 response is sent by this step.
Sends200 == pc # "done" /\ pc' = "done" /\ res'.status = 200

\* C25: while a cache entry has not expired, every response to /api/phenology
\* requests of its key carries the same payload, whatever the order in which
\* requests are received and handled, also when a request is received while
\* an earlier one of the same key is between its cache lookup and its
\* cache.set.  Every 200 response carries the payload the cache holds for the
\* request's key once the response is sent (the entry found, or the entry
\* this request stores), and an entry keeps its payload for as long as it is
\* in the cache.
C25_SameKeySamePayload ==
  [][/\ Sends200 =>
          /\ CacheKey(query') \in DOMAIN cache'
          /\ cache'[CacheKey(query')] = res'.body
          /\ CacheKey(query') \in DOMAIN cache => cache[CacheKey(query')] = res'.body
     /\ \A k \in (DOMAIN cache) \cap (DOMAIN cache') : cache'[k] = cache[k]]_vars

\* A request received while an earlier one of its key was suspended has been
\* answered, from the entry the earlier one stored, while another request
\* still waits.
C25_Witness ==
  /\ Sent200
  /\ overlapped
  /\ year = Null
  /\ res.body = cache[CacheKey(query)]
  /\ res.body.years # <<>>
  /\ inflight # {}

\* C26: for /api/phenology and /api/vegetation/analysis, whenever computing
\* the payload fails the handler responds with status 500 and the cache holds
\* no entry for the key; cache.set is reached only with a non-null payload,
\* and a failure is never answered with a 200.
C26_FailureAnswered500 ==
  /\ (va.pc = "done" /\ va.failed) =>
        va.res.status = 500 /\ va.key \notin DOMAIN cache
  /\ (pc = "done" /\ res.status = 500) => CacheKey(query) \notin DOMAIN cache
  /\ \A k \in DOMAIN cache : cache[k] # NullPayload
  /\ va.res.status = 200 => va.res.body # NullPayload

SeriesResponses == {200, 400, 502, 504, 500}

\* C27: the /api/vegetation/real/series handler always terminates.  It issues
\* at most 30 status requests, one for each counted attempt whatever the
\* reply's status; it sends no response before it returns and exactly one,
\* of 200, 400, 502, 504 or 500, when it does; and every request received is
\* eventually answered, given that each upstream call returns or raises.
C27_OneResponseWithinThirtyPolls ==
  /\ [](/\ rs.polls <= MaxAttempts
        /\ rs.polls = rs.attempts
        /\ Len(rs.sent) <= 1
        /\ (rs.pc = "done") <=> (Len(rs.sent) = 1)
        /\ \A i \in 1..Len(rs.sent) : rs.sent[i] \in SeriesResponses)
  /\ (rs.pc # "idle") ~> (rs.pc = "done")

\* The thirtieth status request was answered with a non-200 status and ended
\* the polling with a 504.
C27_Witness ==
  /\ rs.pc = "done"
  /\ rs.polls = MaxAttempts
  /\ rs.reply.kind = "reply" /\ rs.reply.status # 200
  /\ rs.sent = <<504>>

\* C28: in the polling of /api/vegetation/real/series, the handler downloads
\* (and can answer 200) only after a status reply 'successful' with at least
\* one data link; a reply 'failed' or 'canceled' ends the polling at once
\* with a 502; 'successful' without links, or 30 attempts without
\* 'successful', gives 504; and no status request follows a reply
\* 'successful', 'failed' or 'canceled'.
C28_PollingOutcomes ==
  /\ [](/\ (rs.pc \in {"download", "parse"} \/ rs.sent = <<200>>) =>
             /\ rs.reply.jobStatus = "successful"
             /\ rs.status = "successful"
             /\ Len(rs.links) >= 1 /\ rs.links = rs.reply.links
        /\ rs.status \in {"failed", "canceled"} =>
             rs.pc = "done" /\ rs.sent = <<502>>
        /\ (rs.status = "successful" /\ Len(rs.links) = 0) =>
             rs.pc = "done" /\ rs.sent = <<504>>
        /\ (/\ rs.pc = "done" /\ rs.attempts = MaxAttempts
            /\ rs.status \notin {"successful", "failed", "canceled"}
            /\ rs.reply.kind # "throw") => rs.sent = <<504>>)
  /\ [][rs'.polls > rs.polls =>
          rs.status \notin {"successful", "failed", "canceled"}]_vars

\* A 200 was sent after the job was reported running, then successful.
C28_Witness ==
  /\ rs.pc = "done"
  /\ rs.sent = <<200>>
  /\ rs.polls >= 2
  /\ rs.status = "successful"

\* A reply that returned entries: status 200 and a non-empty entry list.
HasEntries(reply) ==
  reply.kind = "reply" /\ reply.status = 200 /\ Len(reply.entries) > 0

\* The queries are issued in the fixed order, a later one only after every
\* earlier one returned a non-200 status or no entries; the function lets no
\* exception out.
CmrQueriesInOrder ==
  /\ Len(cmr.issued) <= Len(CmrParams)
  /\ \A n \in 1..Len(cmr.issued) : cmr.issued[n] = CmrParams[n]
  /\ \A n \in 2..Len(cmr.issued) :
       \A m \in 1..(n - 1) :
         cmr.replies[m].kind = "reply" /\ ~HasEntries(cmr.replies[m])
  /\ cmr.pc = "await" => Len(cmr.replies) = Len(cmr.issued) - 1
  /\ cmr.pc = "done" => Len(cmr.replies) = Len(cmr.issued)
  /\ ~cmr.raised

\* The entry the last reply's list yields for the function: the first entry
\* whose id names the preferred provider (the caller's for the first query,
\* LPDAAC_ECS for the others), the first entry of the list if there is none.
CmrChosenEntry ==
  LET n == Len(cmr.replies)
      entries == cmr.replies[n].entries
      want == IF n = 1 THEN cmr.provider ELSE "LPDAAC_ECS"
      named == {i \in 1..Len(entries) :
                  entries[i] # NullEntry /\ Includes(entries[i].id, want)}
  IN  IF named = {} THEN entries[1]
      ELSE entries[CHOOSE i \in named : \A j \in named : i <= j]

\* C29 (as claimed): getCmrCollectionConceptId issues its queries in the
\* fixed order, a later one only if every earlier one returned a non-200
\* status or no entries, returns the concept id taken from the first query
\* that returned entries, never throws, and returns null only if all three
\* queries returned no entries or a request raised an exception.
C29_NullOnlyWhenNothingFound ==
  /\ CmrQueriesInOrder
  /\ (cmr.pc = "done" /\ HasEntries(cmr.replies[Len(cmr.replies)])) =>
        \E i \in 1..Len(cmr.replies[Len(cmr.replies)].entries) :
          /\ cmr.replies[Len(cmr.replies)].entries[i] # NullEntry
          /\ cmr.replies[Len(cmr.replies)].entries[i].id # ""
          /\ cmr.result = cmr.replies[Len(cmr.replies)].entries[i].id
  /\ (cmr.pc = "done" /\ cmr.result = NullString) =>
        \/ /\ Len(cmr.replies) = Len(CmrParams)
           /\ \A n \in 1..Len(cmr.replies) :
                cmr.replies[n].kind = "reply" /\ ~HasEntries(cmr.replies[n])
        \/ cmr.replies[Len(cmr.replies)].kind = "throw"

\* C29 (amended): as claimed, except that the first query that returned
\* entries decides the result even when it yields no id: the function
\* returns the id of the entry chosen from that reply, and null if that
\* entry has no id; null is also returned when examining the entries raises
\* (a null entry met before a match).  So null is returned only if all three
\* queries returned a non-200 status or no entries, or an exception was
\* raised by a request or by the examination of a reply, or the chosen entry
\* has no id.
C29_NullAlsoWhenChosenEntryHasNoId ==
  /\ CmrQueriesInOrder
  /\ (cmr.pc = "done" /\ HasEntries(cmr.replies[Len(cmr.replies)]) /\ ~cmr.caught) =>
        /\ CmrChosenEntry # NullEntry
        /\ cmr.result = IF CmrChosenEntry.id = "" THEN NullString ELSE CmrChosenEntry.id
  /\ (cmr.pc = "done" /\ cmr.result = NullString) =>
        \/ /\ Len(cmr.replies) = Len(CmrParams)
           /\ \A n \in 1..Len(cmr.replies) :
                cmr.replies[n].kind = "reply" /\ ~HasEntries(cmr.replies[n])
        \/ cmr.caught
        \/ /\ HasEntries(cmr.replies[Len(cmr.replies)])
           /\ CmrChosenEntry.id = ""
  /\ (cmr.pc = "done" /\ cmr.caught) =>
        \/ cmr.replies[Len(cmr.replies)].kind = "throw"
        \/ /\ HasEntries(cmr.replies[Len(cmr.replies)])
           /\ \E i \in 1..Len(cmr.replies[Len(cmr.replies)].entries) :
                cmr.replies[Len(cmr.replies)].entries[i] = NullEntry

\* The second query returned two entries, none naming LPDAAC_ECS and the
\* first without id: null is returned and the third query is not issued.
C29_Witness ==
  /\ cmr.pc = "done"
  /\ Len(cmr.issued) = 2
  /\ cmr.replies[2] = [kind |-> "reply", status |-> 200,
                       entries |-> <<[id |-> ""], [id |-> "C2-ORNL_CLOUD"]>>]
  /\ cmr.result = NullString
  /\ ~cmr.caught

\* The summary's count of years with a bloom, for a list of detections
\* filed as the records of consecutive years.
YearsWithBloom(detections) ==
  Summary([k \in 1..Len(detections) |->
             YearRecord(FirstYear + k - 1, detections[k])]).years_with_bloom

\* C30: for every non-empty series detectBloom returns a peakDate and a
\* peakValue that are not null, also when the smoothed values cross the
\* threshold neither upward nor downward and onsetDate and endDate are null;
\* so the summary counts as years with bloom exactly the years whose series
\* is non-empty, whether or not an onset or an end was detected.
C30_PeakWithoutCrossing ==
  BloomCalled =>
    LET counted == IF Len(data) > 0 THEN 1 ELSE 0
        ofEmptyYear == DetectYear(<<>>)
    IN  /\ Len(data) > 0 => (ret.peakDate # Null /\ ret.peakValue # Null)
        /\ Len(data) = 0 => ret.peakDate = Null
        /\ YearsWithBloom(<<ret>>) = counted
        /\ YearsWithBloom(<<ret, ofEmptyYear>>) = counted
        /\ YearsWithBloom(<<ofEmptyYear, ret, ret>>) = 2 * counted

\* A constant series: no onset, no end, yet a peak, and the year is counted.
C30_Witness ==
  /\ BloomCalled
  /\ Len(data) >= 2
  /\ \A i \in 1..Len(data) : data[i].value = data[1].value
  /\ ret.onsetDate = Null /\ ret.endDate = Null
  /\ ret.peakDate = data[1].date
  /\ ret.peakValue = SmoothScale * data[1].value
  /\ YearsWithBloom(<<ret>>) = 1
====
